---- MODULE Spec2Model ----
(***************************************************************************)
(* A model of the real-time fan-out hub of YuJian-Lab:                     *)
(*   - the standalone bounded priority queue  (src/broadcast-scheduler.ts) *)
(*   - the standalone message router          (src/message-router.js)      *)
(*   - the connection registry and the router of the presence backend      *)
(*     (src/projects/yujian-presence/backend/src/routes/system.ts)         *)
(*   - the batching scheduler of the presence backend (src/unnamed/part_003)*)
(*   - the gateway (src/projects/yujian-presence/backend/src/websocket/index.ts)*)
(*   - the browser client (src/unnamed/part_004)                           *)
(* Each component has its own specification; the variables of the other    *)
(* components stay at their initial values in it.                          *)
(***************************************************************************)
EXTENDS Integers, Sequences, FiniteSets, TLC

(***************************************************************************)
(* Bounds of the model                                                     *)
(***************************************************************************)
\* largest maxQueueSize option a scheduler is constructed with
MaxQueueCap == 3
\* number of enqueue calls on the standalone scheduler in one behaviour
MaxEnqueues == 5
\* number of transports offered to the registry in one behaviour
MaxRegs == 3
\* the maxConnectionsPerUser and maxTotalConnections options of the model
maxConnectionsPerUser == 1
maxTotalConnections == 2
\* the clock runs from 0 to MaxTime; sweeps are called with 1..MaxTimeout
MaxTime == 2
MaxTimeout == 1
\* number of transports the gateway is offered in one behaviour
MaxSessions == 2
\* number of broadcasts in one behaviour
MaxTasks == 3
\* the maxQueueSize the backend scheduler is configured with (it reads no such option)
hubMaxQueueSize == 2
\* number of inputs of the hub (transports, frames, broadcasts, ticks) in one behaviour
MaxHubInputs == 4
\* the broadcastBatchSize option of the model
broadcastBatchSize == 2
\* number of transports the client creates in one behaviour
MaxClientSockets == 4
\* the maxReconnectAttempts and heartbeatTimeout options of the client of the model
maxReconnectAttempts == 2
heartbeatTimeout == 1
\* number of transports of a client that also sends and receives frames
MaxIOSockets == 3
\* number of subscribe and unsubscribe calls, heartbeat ticks and server frames
\* the client handles in one behaviour
MaxClientCalls == 3
\* number of client frames and of calls on the standalone router in one behaviour
MaxFrames == 2
\* number of statuses the change detector checks in one behaviour
MaxSamples == 5
\* sessions opened, frames received and clock ticks of a behaviour of the gateway
MaxGatewayInputs == 4
\* the inputs of one run of the client with its frames: transports, calls, ticks
MaxClientInputs == 4
\* number of calls on the standalone router when it is checked on its own
MaxRouterCalls == 6
\* the length the offline queue of the client is required to stay within
OfflineQueueMax == 2

(***************************************************************************)
(* Sequence helpers (Array.prototype.findIndex / splice)                   *)
(***************************************************************************)
\* findIndex: index of the first element satisfying Test, 0 when none (-1 in JS)
FindIndex(s, Test(_)) ==
  IF \E i \in 1..Len(s) : Test(s[i])
  THEN CHOOSE i \in 1..Len(s) : Test(s[i]) /\ \A j \in 1..(i-1) : ~Test(s[j])
  ELSE 0

\* splice(i, 1)
RemoveAt(s, i) == SubSeq(s, 1, i-1) \o SubSeq(s, i+1, Len(s))

\* splice(i, 0, m): m is placed before the element at index i
InsertAt(s, i, m) == SubSeq(s, 1, i-1) \o <<m>> \o SubSeq(s, i, Len(s))

(***************************************************************************)
(* State                                                                   *)
(***************************************************************************)
\* standalone BroadcastScheduler (src/broadcast-scheduler.ts)
VARIABLES
  queue,         \* BroadcastScheduler.queue
  maxQueueSize,  \* BroadcastScheduler.maxQueueSize
  isRunning,     \* BroadcastScheduler.isRunning
  nextMsgId,     \* ids of the messages handed to enqueue: 1, 2, ...
  lastOp         \* the last call on the scheduler and what it returned

\* ConnectionManager and the transports
VARIABLES
  connections,      \* ConnectionManager.connections: id -> ConnectionMetadata
  userConnections,  \* ConnectionManager.userConnections: userId -> set of ids
  socket,           \* the transports: readyState and the close() calls made on each
  nextSock,         \* the next transport; a connection is named by its transport
  now,              \* Date.now()
  registered,       \* what the last register returned or threw
  swept             \* what the last cleanupTimedOutConnections returned

\* the gateway and the MessageRouter of the backend
VARIABLES
  sent,       \* the frames written to each transport, in order
  nextFrame   \* the client frames and router calls so far, plus one

\* the get_history requests of the MessageRouter of the backend
VARIABLES
  pendingHistory  \* the calls of the history provider that have not returned yet

\* standalone MessageRouter (src/message-router.js)
VARIABLES
  subscribers,  \* MessageRouter.subscribers: type -> set of callbacks
  routerRet     \* the last call on the router and whether it succeeded

\* BroadcastScheduler of the backend (src/unnamed/part_003)
VARIABLES
  messageQueue,  \* BroadcastScheduler.messageQueue
  isProcessing,  \* BroadcastScheduler.isProcessing
  inflight,      \* the groups of the batch being broadcast that are still to be handled
  drainBatch,    \* processQueue's batch: the tasks of the drain in progress
  drainFrom,     \* how many frames each transport had been sent when the drain started
  dropped,       \* the tasks that were in the queue when stop() emptied it
  immediates,    \* the setImmediate callbacks of processQueue not yet run
  flushTimer,    \* the flush timer is set
  nextTask       \* the broadcasts made so far, plus one

\* ChangeDetector of the backend (backend/src/websocket/change-detector.ts)
VARIABLES
  lastHealthStatus,  \* ChangeDetector.lastHealthStatus: component -> value and level
  healthSamples,     \* the statuses checkHealthAlerts has looked at, in order
  healthLog          \* the broadcasts each of those checks made, in order

\* ChangeDetector of the backend: status changes
VARIABLES
  lastStatus,  \* ChangeDetector.lastStatus: <<>> for null, or the one status
  statusLog    \* the broadcasts the last checkStatusChange made

\* WebSocketClient of the frontend (src/unnamed/part_004)
VARIABLES
  state,                \* WebSocketClient.state
  ws,                   \* WebSocketClient.ws: a transport, or 0 for null
  sockets,              \* readyState of each transport the client has created
  wire,                 \* the frames written to each transport, in order
  reconnectInterval,    \* options.reconnectInterval
  reconnectAttempts,    \* WebSocketClient.reconnectAttempts
  totalAttempts,        \* the reconnect attempts made since construction
  reconnectTimer,       \* the timer of WebSocketClient.reconnectTimer is pending
  orphanTimers,         \* pending reconnect timers whose handle was overwritten
  heartbeatTimer,       \* the interval of WebSocketClient.heartbeatTimer is set
  orphanHeartbeats,     \* intervals whose handle was overwritten
  lastPongTime,         \* WebSocketClient.lastPongTime
  clientQueue,          \* WebSocketClient.messageQueue
  clientSubscriptions,  \* WebSocketClient.subscriptions, in insertion order
  clientConnectionId,        \* WebSocketClient.connectionId, "" for null
  lastError,            \* the message of the last error given to options.onError
  delay,                \* the delay of the last reconnect timer, as a fraction
  hung,                 \* flushMessageQueue is in a loop that does not end
  nextCall,             \* the calls, timer ticks and frames the client has handled, plus one
  lastCall              \* the method the application called in the last step, and its result

queueVars == <<queue, maxQueueSize, isRunning, nextMsgId, lastOp>>

regVars == <<connections, userConnections, socket, nextSock, now, registered, swept>>

gwVars == <<sent, nextFrame>>

srVars == <<subscribers, routerRet>>

hubVars ==
  <<messageQueue, isProcessing, inflight, drainBatch, drainFrom, dropped, immediates, flushTimer,
    nextTask>>

clientVars ==
  <<state, ws, sockets, wire, reconnectInterval, reconnectAttempts, totalAttempts,
    reconnectTimer, orphanTimers, heartbeatTimer, orphanHeartbeats, lastPongTime,
    clientQueue, clientSubscriptions, clientConnectionId, lastError, delay, hung,
    nextCall, lastCall>>

detVars == <<lastHealthStatus, healthSamples, healthLog>>

histVars == <<pendingHistory>>

statVars == <<lastStatus, statusLog>>

\* what the actions of each component leave alone
notQueueVars ==
  <<regVars, gwVars, srVars, hubVars, clientVars, detVars, histVars, statVars>>

notRegVars ==
  <<queueVars, gwVars, srVars, hubVars, clientVars, detVars, histVars, statVars>>

notGatewayVars ==
  <<queueVars, srVars, hubVars, clientVars, detVars, histVars, statVars>>

notRouterVars ==
  <<queueVars, regVars, sent, hubVars, clientVars, detVars, histVars, statVars>>

notHubVars ==
  <<queueVars, regVars, srVars, clientVars, detVars, histVars, statVars>>

notClientVars ==
  <<queueVars, regVars, gwVars, srVars, hubVars, detVars, histVars, statVars>>

notDetectorVars ==
  <<queueVars, regVars, gwVars, srVars, hubVars, clientVars, histVars, statVars>>

(***************************************************************************)
(* Standalone BroadcastScheduler (src/broadcast-scheduler.ts)              *)
(***************************************************************************)

DEFAULT_MAX_QUEUE_SIZE == 1000

Priorities == {"high", "medium", "low"}

\* priorityOrder of insertByPriority
priorityOrder(p) == CASE p = "high" -> 0 [] p = "medium" -> 1 [] p = "low" -> 2

\* options.maxQueueSize: absent (-1 here) or a number
QueueOptions == -1..MaxQueueCap

QueueInit ==
  /\ queue = <<>>
  /\ \E opt \in QueueOptions :
       maxQueueSize = IF opt = -1 THEN DEFAULT_MAX_QUEUE_SIZE ELSE opt
  /\ isRunning = FALSE
  /\ nextMsgId = 1
  /\ lastOp = [op |-> "new"]

\* insertByPriority with >= for >: the message goes before its equals
insertByPriorityBeforeEqual(q, message) ==
  LET insertIndex ==
        FindIndex(q, LAMBDA m : priorityOrder(m.priority) >= priorityOrder(message.priority))
  IN  IF insertIndex = 0 THEN Append(q, message) ELSE InsertAt(q, insertIndex, message)

insertByPriority(q, message) ==
  LET insertIndex ==
        FindIndex(q, LAMBDA m : priorityOrder(m.priority) > priorityOrder(message.priority))
  IN  IF insertIndex = 0 THEN Append(q, message) ELSE InsertAt(q, insertIndex, message)

\* enqueue whose second displacement accepts a medium message too
enqueueMediumDisplaces(q, message, cap) ==
  IF Len(q) >= cap
  THEN LET lowPriorityIndex == FindIndex(q, LAMBDA m : m.priority = "low")
           mediumPriorityIndex == FindIndex(q, LAMBDA m : m.priority = "medium")
       IN  IF lowPriorityIndex # 0 /\ message.priority # "low"
           THEN [queue |-> insertByPriority(RemoveAt(q, lowPriorityIndex), message),
                 ret |-> TRUE, evicted |-> <<q[lowPriorityIndex]>>]
           ELSE IF message.priority = "low"
           THEN [queue |-> q, ret |-> FALSE, evicted |-> <<>>]
           ELSE IF mediumPriorityIndex # 0
           THEN [queue |-> insertByPriority(RemoveAt(q, mediumPriorityIndex), message),
                 ret |-> TRUE, evicted |-> <<q[mediumPriorityIndex]>>]
           ELSE [queue |-> q, ret |-> FALSE, evicted |-> <<>>]
  ELSE [queue |-> insertByPriority(q, message), ret |-> TRUE, evicted |-> <<>>]

\* enqueue that makes room by dropping the head of a full queue
enqueueDropsHead(q, message, cap) ==
  IF Len(q) >= cap
  THEN IF message.priority # "low" /\ Len(q) > 0
       THEN [queue |-> insertByPriority(Tail(q), message),
             ret |-> TRUE, evicted |-> <<Head(q)>>]
       ELSE [queue |-> q, ret |-> FALSE, evicted |-> <<>>]
  ELSE [queue |-> insertByPriority(q, message), ret |-> TRUE, evicted |-> <<>>]

\* enqueue(message): the queue afterwards, the value returned, the message dropped
enqueue(q, message, cap) ==
  IF Len(q) >= cap
  THEN LET lowPriorityIndex == FindIndex(q, LAMBDA m : m.priority = "low")
           mediumPriorityIndex == FindIndex(q, LAMBDA m : m.priority = "medium")
       IN  IF lowPriorityIndex # 0 /\ message.priority # "low"
           THEN [queue |-> insertByPriority(RemoveAt(q, lowPriorityIndex), message),
                 ret |-> TRUE, evicted |-> <<q[lowPriorityIndex]>>]
           ELSE IF message.priority = "low"
           THEN [queue |-> q, ret |-> FALSE, evicted |-> <<>>]
           ELSE IF mediumPriorityIndex # 0 /\ message.priority = "high"
           THEN [queue |-> insertByPriority(RemoveAt(q, mediumPriorityIndex), message),
                 ret |-> TRUE, evicted |-> <<q[mediumPriorityIndex]>>]
           ELSE [queue |-> q, ret |-> FALSE, evicted |-> <<>>]
  ELSE [queue |-> insertByPriority(q, message), ret |-> TRUE, evicted |-> <<>>]

Enqueue(p) ==
  /\ nextMsgId <= MaxEnqueues
  /\ LET message == [id |-> nextMsgId, priority |-> p]
         r == enqueue(queue, message, maxQueueSize)
     IN  /\ queue' = r.queue
         /\ lastOp' = [op |-> "enqueue", message |-> message, before |-> queue,
                       ret |-> r.ret, evicted |-> r.evicted]
  /\ nextMsgId' = nextMsgId + 1
  /\ UNCHANGED <<maxQueueSize, isRunning>>
  /\ UNCHANGED notQueueVars

\* processQueue up to its first await: one message is shifted and broadcast
ProcessQueue ==
  /\ ~isRunning
  /\ IF queue = <<>>
     THEN UNCHANGED <<queue, isRunning>>
     ELSE queue' = Tail(queue) /\ isRunning' = TRUE
  /\ lastOp' = [op |-> "drain"]
  /\ UNCHANGED <<maxQueueSize, nextMsgId>>
  /\ UNCHANGED notQueueVars

\* processQueue resumed after an await: the next message, or the end of the loop
ProcessQueueResume ==
  /\ isRunning
  /\ IF queue = <<>>
     THEN isRunning' = FALSE /\ UNCHANGED queue
     ELSE queue' = Tail(queue) /\ UNCHANGED isRunning
  /\ lastOp' = [op |-> "drain"]
  /\ UNCHANGED <<maxQueueSize, nextMsgId>>
  /\ UNCHANGED notQueueVars

ClearQueue ==
  /\ queue # <<>>
  /\ queue' = <<>>
  /\ lastOp' = [op |-> "clear"]
  /\ UNCHANGED <<maxQueueSize, isRunning, nextMsgId>>
  /\ UNCHANGED notQueueVars

QueueNext ==
  \/ \E p \in Priorities : Enqueue(p)
  \/ ProcessQueue
  \/ ProcessQueueResume
  \/ ClearQueue


(***************************************************************************)
(* ConnectionManager (backend/src/routes/system.ts, lines 371-687)         *)
(***************************************************************************)

Users == {"u1", "u2"}

\* close codes and reasons used by the backend
HeartbeatClose == [code |-> 1001, reason |-> "Heartbeat timeout"]

Restrict(f, S) == [x \in S |-> f[x]]

\* the ids of a set in ascending order (Map iteration order: insertion order)
RECURSIVE AscendingSeq(_)
AscendingSeq(S) ==
  IF S = {} THEN <<>>
  ELSE LET m == CHOOSE x \in S : \A y \in S : x <= y
       IN  <<m>> \o AscendingSeq(S \ {m})

RegInit ==
  /\ connections = <<>>
  /\ userConnections = <<>>
  /\ socket = <<>>
  /\ nextSock = 1
  /\ now = 0
  /\ registered = "none"
  /\ swept = [done |-> FALSE, ret |-> <<>>]

\* userConnections.get(userId) || new Set()
UserConns(uc, userId) == IF userId \in DOMAIN uc THEN uc[userId] ELSE {}

\* the admission test of register with > for >= on the per-user cap
registerRefusedOffByOne(conns, uc, userId) ==
  \/ Cardinality(DOMAIN conns) >= maxTotalConnections
  \/ Cardinality(UserConns(uc, userId)) > maxConnectionsPerUser

\* register throws MAX_CONNECTIONS_EXCEEDED
registerRefused(conns, uc, userId) ==
  \/ Cardinality(DOMAIN conns) >= maxTotalConnections
  \/ Cardinality(UserConns(uc, userId)) >= maxConnectionsPerUser

\* the registry after a successful register of transport s for userId
register(conns, uc, s, userId, t) ==
  [connections |->
     [id \in DOMAIN conns \cup {s} |->
        IF id = s
        THEN [id |-> s, userId |-> userId, subscriptions |-> {},
              lastHeartbeat |-> t, isAlive |-> TRUE]
        ELSE conns[id]],
   userConnections |->
     [u \in DOMAIN uc \cup {userId} |->
        IF u = userId THEN UserConns(uc, userId) \cup {s} ELSE uc[u]]]

\* an unregister that keeps the identity's set when it becomes empty
unregisterKeepingEmptySet(conns, uc, connectionId) ==
  IF connectionId \notin DOMAIN conns
  THEN [connections |-> conns, userConnections |-> uc]
  ELSE LET userId == conns[connectionId].userId
       IN  [connections |-> Restrict(conns, DOMAIN conns \ {connectionId}),
            userConnections |->
              IF userId \notin DOMAIN uc THEN uc
              ELSE [uc EXCEPT ![userId] = @ \ {connectionId}]]

\* the registry after unregister(connectionId)
unregister(conns, uc, connectionId) ==
  IF connectionId \notin DOMAIN conns
  THEN [connections |-> conns, userConnections |-> uc]
  ELSE LET userId == conns[connectionId].userId
           left == UserConns(uc, userId) \ {connectionId}
           uc2 == IF userId \notin DOMAIN uc THEN uc
                  ELSE IF left = {} THEN Restrict(uc, DOMAIN uc \ {userId})
                  ELSE [uc EXCEPT ![userId] = left]
       IN  [connections |-> Restrict(conns, DOMAIN conns \ {connectionId}),
            userConnections |-> uc2]

RECURSIVE unregisterAll(_, _, _)
unregisterAll(conns, uc, ids) ==
  IF ids = <<>> THEN [connections |-> conns, userConnections |-> uc]
  ELSE LET r == unregister(conns, uc, Head(ids))
       IN  unregisterAll(r.connections, r.userConnections, Tail(ids))

\* a new transport, in the OPEN state, on which close() was never called
NewSocket == [readyState |-> "OPEN", closeCalls |-> <<>>]

AddSocket(s) == [x \in DOMAIN socket \cup {s} |-> IF x = s THEN NewSocket ELSE socket[x]]

\* ConnectionManager.register(socket, userId)
Register(userId) ==
  /\ nextSock <= MaxRegs
  /\ nextSock' = nextSock + 1
  /\ socket' = AddSocket(nextSock)
  /\ IF registerRefused(connections, userConnections, userId)
     THEN /\ UNCHANGED <<connections, userConnections>>
          /\ registered' = "MAX_CONNECTIONS_EXCEEDED"
     ELSE LET r == register(connections, userConnections, nextSock, userId, now)
          IN  /\ connections' = r.connections
              /\ userConnections' = r.userConnections
              /\ registered' = "ok"
  /\ UNCHANGED <<now, swept>>
  /\ UNCHANGED notRegVars

\* ConnectionManager.unregister(connectionId), for known and unknown ids
Unregister(connectionId) ==
  /\ LET r == unregister(connections, userConnections, connectionId)
     IN  /\ connections' = r.connections
         /\ userConnections' = r.userConnections
  /\ UNCHANGED <<socket, nextSock, now, registered, swept>>
  /\ UNCHANGED notRegVars

\* ConnectionManager.markAlive(connectionId)
MarkAlive(connectionId) ==
  /\ connections' =
       IF connectionId \in DOMAIN connections
       THEN [connections EXCEPT ![connectionId].lastHeartbeat = now,
                                ![connectionId].isAlive = TRUE]
       ELSE connections
  /\ UNCHANGED <<userConnections, socket, nextSock, now, registered, swept>>
  /\ UNCHANGED notRegVars

\* the test of cleanupTimedOutConnections with >= for >
timedOutInclusive(conn, t, timeoutMs) == t - conn.lastHeartbeat >= timeoutMs

\* Date.now() - conn.lastHeartbeat.getTime() > timeoutMs
timedOut(conn, t, timeoutMs) == t - conn.lastHeartbeat > timeoutMs

\* socket.close(code, reason) on every transport of ids that is OPEN
CloseOpenSockets(socks, ids, how) ==
  [x \in DOMAIN socks |->
     IF x \in ids /\ socks[x].readyState = "OPEN"
     THEN [readyState |-> "CLOSED", closeCalls |-> Append(socks[x].closeCalls, how)]
     ELSE socks[x]]

\* ConnectionManager.cleanupTimedOutConnections(timeoutMs)
Sweep(timeoutMs) ==
  LET timedOutIds ==
        AscendingSeq({id \in DOMAIN connections : timedOut(connections[id], now, timeoutMs)})
      r == unregisterAll(connections, userConnections, timedOutIds)
  IN  /\ socket' = CloseOpenSockets(socket, {timedOutIds[i] : i \in 1..Len(timedOutIds)},
                                    HeartbeatClose)
      /\ connections' = r.connections
      /\ userConnections' = r.userConnections
      /\ swept' = [done |-> TRUE, ret |-> timedOutIds]
      /\ UNCHANGED <<nextSock, now, registered>>
      /\ UNCHANGED notRegVars

\* the peer or the network closes a transport: readyState leaves OPEN
SocketCloses(s) ==
  /\ s \in DOMAIN connections
  /\ socket[s].readyState = "OPEN"
  /\ socket' = [socket EXCEPT ![s].readyState = "CLOSED"]
  /\ UNCHANGED <<connections, userConnections, nextSock, now, registered, swept>>
  /\ UNCHANGED notRegVars

\* time passes
Tick ==
  /\ now < MaxTime
  /\ ~isProcessing
  /\ now' = now + 1
  /\ UNCHANGED <<connections, userConnections, socket, nextSock, registered, swept>>
  /\ UNCHANGED notRegVars

RegNext ==
  \/ \E u \in Users : Register(u)
  \/ \E id \in 1..MaxRegs : Unregister(id)
  \/ \E id \in 1..MaxRegs : MarkAlive(id)
  \/ \E T \in 1..MaxTimeout : Sweep(T)
  \/ \E s \in 1..MaxRegs : SocketCloses(s)
  \/ Tick

\* the types handed to addSubscription and removeSubscription
SubscriptionTypes == {"status", "stats", "all"}

\* ConnectionManager.addSubscription
addSubscription(conns, connectionId, type) ==
  IF connectionId \in DOMAIN conns
  THEN [conns EXCEPT ![connectionId].subscriptions = @ \cup {type}]
  ELSE conns

\* a removeSubscription that deletes nothing
removeSubscriptionKeeping(conns, connectionId, type) == conns

\* ConnectionManager.removeSubscription
removeSubscription(conns, connectionId, type) ==
  IF connectionId \in DOMAIN conns
  THEN [conns EXCEPT ![connectionId].subscriptions = @ \ {type}]
  ELSE conns

\* addSubscription(connectionId, type) is called, for known and unknown ids
AddSubscription(connectionId, type) ==
  /\ connections' = addSubscription(connections, connectionId, type)
  /\ UNCHANGED <<userConnections, socket, nextSock, now, registered, swept>>
  /\ UNCHANGED notRegVars

\* removeSubscription(connectionId, type) is called, for known and unknown ids
RemoveSubscription(connectionId, type) ==
  /\ connections' = removeSubscription(connections, connectionId, type)
  /\ UNCHANGED <<userConnections, socket, nextSock, now, registered, swept>>
  /\ UNCHANGED notRegVars

\* the registry with the subscriptions of its connections set one by one
SubscriptionsNext ==
  \/ \E u \in Users : Register(u)
  \/ \E id \in 1..MaxRegs : Unregister(id)
  \/ \E id \in 1..MaxRegs, type \in SubscriptionTypes : AddSubscription(id, type)
  \/ \E id \in 1..MaxRegs, type \in SubscriptionTypes : RemoveSubscription(id, type)

(***************************************************************************)
(* MessageRouter of the backend (backend/src/routes/system.ts, 693-1160)   *)
(* and the gateway (backend/src/websocket/index.ts)                        *)
(***************************************************************************)

VALID_MESSAGE_TYPES == {"status", "stats", "health", "config", "system", "error", "all"}

VALID_CLIENT_ACTIONS == {"subscribe", "unsubscribe", "ping", "get_history", "ack"}

\* the subscription the gateway gives every accepted connection
AutoSubscription == <<"status", "stats", "health">>

\* the elements of a sequence (new Set(array))
Range(s) == {s[i] : i \in 1..Len(s)}

\* the type lists of the subscribe and unsubscribe payloads of the model
TypeLists ==
  {<<"error">>, <<"status", "error">>, <<"all">>, <<"bogus">>}

\* a text that JSON.parse rejects
Garbage ==
  [json |-> FALSE, id |-> FALSE, type |-> "", action |-> "", timestamp |-> FALSE,
   hasTypes |-> FALSE, types |-> <<>>]

\* a well-formed client message: type 'config', an id and a numeric timestamp
Frame(action, hasTypes, types) ==
  [json |-> TRUE, id |-> TRUE, type |-> "config", action |-> action, timestamp |-> TRUE,
   hasTypes |-> hasTypes, types |-> types]

\* the client frames of the model
ClientFrames ==
  {Garbage}
    \cup {[Frame("ping", FALSE, <<>>) EXCEPT !.id = FALSE]}
    \cup {Frame(a, FALSE, <<>>) : a \in {"ping", "ack", "subscribe"}}
    \cup {Frame(a, TRUE, l) : a \in {"subscribe", "unsubscribe"}, l \in TypeLists}
    \cup {Frame("bogus", FALSE, <<>>), [Frame("ping", FALSE, <<>>) EXCEPT !.type = "bogus"]}

\* validateMessage(message).errors, one text for each test that fails
validationErrors(message) ==
  (IF message.id THEN <<>> ELSE <<"Missing required field: id">>)
    \o (IF message.type = "" THEN <<"Missing required field: type">>
        ELSE IF message.type \notin VALID_MESSAGE_TYPES THEN <<"Invalid message type">>
        ELSE <<>>)
    \o (IF message.action = "" THEN <<"Missing required field: action">>
        ELSE IF message.action \notin VALID_CLIENT_ACTIONS THEN <<"Invalid action">>
        ELSE <<>>)
    \o (IF message.timestamp THEN <<>> ELSE <<"Missing or invalid field: timestamp">>)

\* a validation that does not ask for an id
validateMessageWithoutId(message) ==
  /\ message.type \in VALID_MESSAGE_TYPES
  /\ message.action \in VALID_CLIENT_ACTIONS
  /\ message.timestamp

\* validateMessage(message).valid
validateMessage(message) == Len(validationErrors(message)) = 0

\* the server frames: the error reply, the two acks, pong, connected, rejection
ErrorFrame(code, message) ==
  [event |-> "error", type |-> "error", code |-> code, types |-> <<>>, events |-> <<>>,
   message |-> message]

AckFrame(event, types) ==
  [event |-> event, type |-> "config", code |-> "", types |-> types, events |-> <<>>]

PongFrame ==
  [event |-> "pong", type |-> "system", code |-> "", types |-> <<>>, events |-> <<>>]

ConnectedFrame ==
  [event |-> "connected", type |-> "system", code |-> "", types |-> <<>>, events |-> <<>>]

RejectedFrame(code) ==
  [event |-> "connection_rejected", type |-> "error", code |-> code, types |-> <<>>,
   events |-> <<>>]

\* a sendMessage that writes to the transport whatever has become of it
sendMessageToAnyTransport(conns, socks, out, connectionId, message) ==
  [out EXCEPT ![connectionId] = Append(@, message)]

\* MessageRouter.sendMessage: written only to a registered connection whose
\* transport is OPEN
sendMessage(conns, socks, out, connectionId, message) ==
  IF connectionId \in DOMAIN conns /\ socks[connectionId].readyState = "OPEN"
  THEN [out EXCEPT ![connectionId] = Append(@, message)]
  ELSE out

\* an updateSubscription that adds the types to the set it finds
updateSubscriptionAdding(conns, connectionId, types) ==
  IF connectionId \in DOMAIN conns
  THEN [conns EXCEPT ![connectionId].subscriptions = @ \cup Range(types)]
  ELSE conns

\* ConnectionManager.updateSubscription
updateSubscription(conns, connectionId, types) ==
  IF connectionId \in DOMAIN conns
  THEN [conns EXCEPT ![connectionId].subscriptions = Range(types)]
  ELSE conns

\* ConnectionManager.removeSubscription for each type of a list
removeSubscriptions(conns, connectionId, types) ==
  IF connectionId \in DOMAIN conns
  THEN [conns EXCEPT ![connectionId].subscriptions = @ \ Range(types)]
  ELSE conns

\* ConnectionManager.markAlive
markAlive(conns, connectionId, t) ==
  IF connectionId \in DOMAIN conns
  THEN [conns EXCEPT ![connectionId].lastHeartbeat = t, ![connectionId].isAlive = TRUE]
  ELSE conns

\* the filter of handleSubscribe without its test for 'error'
validTypesKeepingError(types) == SelectSeq(types, LAMBDA type : type \in VALID_MESSAGE_TYPES)

\* payload.types.filter(type => VALID_MESSAGE_TYPES.has(type) && type !== 'error')
validTypes(types) ==
  SelectSeq(types, LAMBDA type : type \in VALID_MESSAGE_TYPES /\ type # "error")

\* the texts of the SUBSCRIPTION_INVALID errors
InvalidSubscribePayload == <<"Invalid subscribe payload">>

NoValidTypes == <<"No valid message types provided">>

InvalidUnsubscribePayload == <<"Invalid unsubscribe payload">>

\* a handleSubscribe that empties the subscription set when no type is valid
handleSubscribeClearing(conns, socks, out, connectionId, payload) ==
  IF ~payload.hasTypes
  THEN [connections |-> conns,
        sent |-> sendMessage(conns, socks, out, connectionId,
                             ErrorFrame("SUBSCRIPTION_INVALID", InvalidSubscribePayload))]
  ELSE IF Len(validTypes(payload.types)) = 0
  THEN [connections |-> updateSubscription(conns, connectionId, <<>>),
        sent |-> sendMessage(conns, socks, out, connectionId,
                             ErrorFrame("SUBSCRIPTION_INVALID", NoValidTypes))]
  ELSE [connections |-> updateSubscription(conns, connectionId, validTypes(payload.types)),
        sent |-> sendMessage(conns, socks, out, connectionId,
                             AckFrame("subscribed", validTypes(payload.types)))]

\* MessageRouter.handleSubscribe
handleSubscribe(conns, socks, out, connectionId, payload) ==
  IF ~payload.hasTypes
  THEN [connections |-> conns,
        sent |-> sendMessage(conns, socks, out, connectionId,
                             ErrorFrame("SUBSCRIPTION_INVALID", InvalidSubscribePayload))]
  ELSE IF Len(validTypes(payload.types)) = 0
  THEN [connections |-> conns,
        sent |-> sendMessage(conns, socks, out, connectionId,
                             ErrorFrame("SUBSCRIPTION_INVALID", NoValidTypes))]
  ELSE [connections |-> updateSubscription(conns, connectionId, validTypes(payload.types)),
        sent |-> sendMessage(conns, socks, out, connectionId,
                             AckFrame("subscribed", validTypes(payload.types)))]

\* a handleUnsubscribe that refuses a list none of whose types is subscribed
handleUnsubscribeSubscribedOnly(conns, socks, out, connectionId, payload) ==
  IF ~payload.hasTypes
     \/ (connectionId \in DOMAIN conns
         /\ Range(payload.types) \cap conns[connectionId].subscriptions = {})
  THEN [connections |-> conns,
        sent |-> sendMessage(conns, socks, out, connectionId,
                             ErrorFrame("SUBSCRIPTION_INVALID", InvalidUnsubscribePayload))]
  ELSE [connections |-> removeSubscriptions(conns, connectionId, payload.types),
        sent |-> sendMessage(conns, socks, out, connectionId,
                             AckFrame("unsubscribed", payload.types))]

\* MessageRouter.handleUnsubscribe
handleUnsubscribe(conns, socks, out, connectionId, payload) ==
  IF ~payload.hasTypes
  THEN [connections |-> conns,
        sent |-> sendMessage(conns, socks, out, connectionId,
                             ErrorFrame("SUBSCRIPTION_INVALID", InvalidUnsubscribePayload))]
  ELSE [connections |-> removeSubscriptions(conns, connectionId, payload.types),
        sent |-> sendMessage(conns, socks, out, connectionId,
                             AckFrame("unsubscribed", payload.types))]

\* MessageRouter.handlePing
handlePing(conns, socks, out, connectionId, t) ==
  [connections |-> markAlive(conns, connectionId, t),
   sent |-> sendMessage(conns, socks, out, connectionId, PongFrame)]

\* a route that takes every valid frame of a connection as a sign of life
routeMarkingAlive(conns, socks, out, connectionId, message, t) ==
  IF ~message.json
  THEN [connections |-> conns,
        sent |-> sendMessage(conns, socks, out, connectionId, ErrorFrame("PARSE_ERROR", <<"Failed to parse message as JSON">>))]
  ELSE IF ~validateMessage(message)
  THEN [connections |-> conns,
        sent |-> sendMessage(conns, socks, out, connectionId, ErrorFrame("INVALID_TYPE", validationErrors(message)))]
  ELSE IF connectionId \notin DOMAIN conns
  THEN [connections |-> conns, sent |-> out]
  ELSE LET alive == markAlive(conns, connectionId, t)
       IN  CASE message.action = "subscribe" ->
                  handleSubscribe(alive, socks, out, connectionId, message)
             [] message.action = "unsubscribe" ->
                  handleUnsubscribe(alive, socks, out, connectionId, message)
             [] message.action = "ping" ->
                  handlePing(alive, socks, out, connectionId, t)
             [] OTHER -> [connections |-> alive, sent |-> out]

\* MessageRouter.route: parse, validate, look the connection up, dispatch
route(conns, socks, out, connectionId, message, t) ==
  IF ~message.json
  THEN [connections |-> conns,
        sent |-> sendMessage(conns, socks, out, connectionId, ErrorFrame("PARSE_ERROR", <<"Failed to parse message as JSON">>))]
  ELSE IF ~validateMessage(message)
  THEN [connections |-> conns,
        sent |-> sendMessage(conns, socks, out, connectionId, ErrorFrame("INVALID_TYPE", validationErrors(message)))]
  ELSE IF connectionId \notin DOMAIN conns
  THEN [connections |-> conns, sent |-> out]
  ELSE CASE message.action = "subscribe" ->
              handleSubscribe(conns, socks, out, connectionId, message)
         [] message.action = "unsubscribe" ->
              handleUnsubscribe(conns, socks, out, connectionId, message)
         [] message.action = "ping" ->
              handlePing(conns, socks, out, connectionId, t)
         [] OTHER -> [connections |-> conns, sent |-> out]

\* the close code and reason of a rejected connection
\* a rejection that closes with the code of a server going away
RejectedCloseGoingAway == [code |-> 1001, reason |-> "MAX_CONNECTIONS_EXCEEDED"]

\* ws.close(1008, error.message) of the open handler
RejectedClose == [code |-> 1008, reason |-> "MAX_CONNECTIONS_EXCEEDED"]

\* a transport on which the open handler has called close(): its close event
\* is still to come
RejectedSocket == [readyState |-> "CLOSING", closeCalls |-> <<RejectedClose>>]

\* The handlers of the gateway run to completion on the event loop: none of
\* them starts while processQueue is between two of its awaits, which only
\* microtasks separate.

\* gateway open(ws): register, send 'connected', subscribe to the three types;
\* when register throws, send the rejection and close the transport with 1008
GatewayOpen(userId) ==
  /\ nextSock <= MaxSessions
  /\ ~isProcessing
  /\ nextSock' = nextSock + 1
  /\ IF registerRefused(connections, userConnections, userId)
     THEN /\ UNCHANGED <<connections, userConnections>>
          /\ registered' = "MAX_CONNECTIONS_EXCEEDED"
          /\ sent' = [x \in DOMAIN sent \cup {nextSock} |->
                        IF x = nextSock THEN <<RejectedFrame("MAX_CONNECTIONS_EXCEEDED")>>
                        ELSE sent[x]]
          /\ socket' = [AddSocket(nextSock) EXCEPT ![nextSock] = RejectedSocket]
     ELSE LET r == register(connections, userConnections, nextSock, userId, now)
          IN  /\ connections' = updateSubscription(r.connections, nextSock, AutoSubscription)
              /\ userConnections' = r.userConnections
              /\ registered' = "ok"
              /\ sent' = [x \in DOMAIN sent \cup {nextSock} |->
                            IF x = nextSock THEN <<ConnectedFrame>> ELSE sent[x]]
              /\ socket' = AddSocket(nextSock)
  /\ UNCHANGED <<now, swept, nextFrame>>
  /\ UNCHANGED notGatewayVars

\* gateway message(ws, message): the frame is routed for ws.connectionId
GatewayMessage(s, message) ==
  /\ nextFrame <= MaxFrames
  /\ s \in DOMAIN socket
  /\ socket[s].readyState = "OPEN"
  /\ ~isProcessing
  /\ nextFrame' = nextFrame + 1
  /\ LET r == route(connections, socket, sent, s, message, now)
     IN  /\ connections' = r.connections
         /\ sent' = r.sent
  /\ UNCHANGED <<userConnections, socket, nextSock, now, registered, swept>>
  /\ UNCHANGED notGatewayVars

\* gateway close(ws): the transport is closed and its connection unregistered;
\* a transport the open handler rejected has no connectionId and the id the
\* handler finds names no connection
GatewayClose(s) ==
  /\ s \in DOMAIN socket
  /\ s \in DOMAIN connections \/ socket[s].readyState = "CLOSING"
  /\ ~isProcessing
  /\ socket' = [socket EXCEPT ![s].readyState = "CLOSED"]
  /\ LET r == unregister(connections, userConnections, s)
     IN  /\ connections' = r.connections
         /\ userConnections' = r.userConnections
  /\ UNCHANGED <<nextSock, now, registered, swept, sent, nextFrame>>
  /\ UNCHANGED notGatewayVars

\* config.defaultHistoryLimit, and the largest limit handleGetHistory passes on
defaultHistoryLimit == 50

MAX_HISTORY_LIMIT == 100

\* payload.limit of the get_history payloads of the model
HistoryLimits == {-1, 0, 1, MAX_HISTORY_LIMIT, MAX_HISTORY_LIMIT + 1}

\* the get_history payloads: with or without a type, with or without a limit
HistoryPayloads ==
  {[hasType |-> t, hasLimit |-> FALSE, limit |-> 0] : t \in BOOLEAN}
    \cup {[hasType |-> TRUE, hasLimit |-> TRUE, limit |-> l] : l \in HistoryLimits}

\* Math.min(payload.limit || this.config.defaultHistoryLimit || 50, 100):
\* an absent limit and the limit 0 are falsy
historyLimit(payload) ==
  LET asked == IF payload.hasLimit /\ payload.limit # 0 THEN payload.limit
               ELSE IF defaultHistoryLimit # 0 THEN defaultHistoryLimit
               ELSE 50
  IN  IF asked < MAX_HISTORY_LIMIT THEN asked ELSE MAX_HISTORY_LIMIT

\* the history_data reply: data.type and data.limit
HistoryFrame(type, limit) ==
  [event |-> "history_data", type |-> "system", code |-> "", types |-> <<>>,
   events |-> <<>>, historyType |-> type, limit |-> limit]

MissingHistoryType == <<"Missing type in get_history payload">>

\* gateway message(ws, message) for a valid get_history frame: route finds the
\* connection and handleGetHistory answers a payload without a type with an
\* error, or calls the history provider with the limit and waits for it
GatewayGetHistory(s, payload) ==
  /\ nextFrame <= MaxFrames
  /\ s \in DOMAIN socket
  /\ socket[s].readyState = "OPEN"
  /\ ~isProcessing
  /\ nextFrame' = nextFrame + 1
  /\ IF s \notin DOMAIN connections
     THEN UNCHANGED <<sent, pendingHistory>>
     ELSE IF ~payload.hasType
     THEN /\ sent' = sendMessage(connections, socket, sent, s,
                                 ErrorFrame("INVALID_TYPE", MissingHistoryType))
          /\ UNCHANGED pendingHistory
     ELSE /\ pendingHistory' =
               pendingHistory \cup {[connectionId |-> s, type |-> "status",
                                     payload |-> payload, limit |-> historyLimit(payload),
                                     frame |-> nextFrame]}
          /\ UNCHANGED sent
  /\ UNCHANGED regVars
  /\ UNCHANGED <<queueVars, srVars, hubVars, clientVars, detVars, statVars>>

\* the history provider returns or throws: handleGetHistory sends the
\* history_data reply with the limit it passed, or an INTERNAL_ERROR
HistoryResolves(call, thrown) ==
  /\ call \in pendingHistory
  /\ ~isProcessing
  /\ pendingHistory' = pendingHistory \ {call}
  /\ sent' = sendMessage(connections, socket, sent, call.connectionId,
                         IF thrown
                         THEN ErrorFrame("INTERNAL_ERROR", <<"Failed to fetch history data">>)
                         ELSE HistoryFrame(call.type, call.limit))
  /\ UNCHANGED nextFrame
  /\ UNCHANGED regVars
  /\ UNCHANGED <<queueVars, srVars, hubVars, clientVars, detVars, statVars>>

\* the gateway with its clock: sessions open and close, frames arrive, time passes
GatewayInputsLeft == (nextSock - 1) + (nextFrame - 1) + now < MaxGatewayInputs

GatewayNext ==
  \/ GatewayInputsLeft /\ \E u \in Users : GatewayOpen(u)
  \/ GatewayInputsLeft /\ \E s \in 1..MaxSessions, f \in ClientFrames : GatewayMessage(s, f)
  \/ GatewayInputsLeft /\ Tick
  \/ \E s \in 1..MaxSessions : GatewayClose(s)

(***************************************************************************)
(* BroadcastScheduler of the backend (src/unnamed/part_003)                *)
(***************************************************************************)

\* the types and priorities of the broadcasts of the model
TaskTypes == {"status", "stats"}

TaskPriorities == {"high", "normal", "low"}

\* the event the change detector broadcasts for a type
EventOf(type) ==
  IF type = "status" THEN "status_update"
  ELSE IF type = "stats" THEN "stats_update"
  ELSE "notice"

\* priorityWeight of sortQueue
priorityWeight(p) == CASE p = "high" -> 0 [] p = "normal" -> 1 [] p = "low" -> 2

\* a comparator that looks at the timestamp only
sortsBeforeByTime(a, b) == a.timestamp <= b.timestamp

\* the comparator of sortQueue is negative or zero: a may stay before b
sortsBefore(a, b) ==
  \/ priorityWeight(a.priority) < priorityWeight(b.priority)
  \/ priorityWeight(a.priority) = priorityWeight(b.priority) /\ a.timestamp <= b.timestamp

\* one task placed into a sorted sequence, after the tasks it does not precede
RECURSIVE sortedInsert(_, _)
sortedInsert(sorted, task) ==
  IF sorted = <<>> THEN <<task>>
  ELSE IF sortsBefore(Head(sorted), task)
       THEN <<Head(sorted)>> \o sortedInsert(Tail(sorted), task)
       ELSE <<task>> \o sorted

\* a sortQueue that leaves the queue in the order of arrival
sortQueueAsArrived(q) == q

\* sortQueue: Array.prototype.sort is stable
RECURSIVE sortQueue(_)
sortQueue(q) ==
  IF q = <<>> THEN <<>>
  ELSE sortedInsert(sortQueue(SubSeq(q, 1, Len(q) - 1)), q[Len(q)])

\* the types of a batch in the order of their first task (Map insertion order)
RECURSIVE typeOrder(_)
typeOrder(tasks) ==
  IF tasks = <<>> THEN <<>>
  ELSE LET rest == typeOrder(SubSeq(tasks, 1, Len(tasks) - 1))
           type == tasks[Len(tasks)].type
       IN  IF type \in Range(rest) THEN rest ELSE Append(rest, type)

\* groupByType: one group per type, each with its tasks in batch order
groupByType(tasks) ==
  [i \in 1..Len(typeOrder(tasks)) |->
     [type |-> typeOrder(tasks)[i],
      tasks |-> SelectSeq(tasks, LAMBDA t : t.type = typeOrder(tasks)[i])]]

\* a merge that wraps a single task in a batch_update as well
createMergedMessageAlwaysBatch(type, tasks) ==
  [event |-> "batch_update", type |-> type, code |-> "", types |-> <<>>,
   events |-> [i \in 1..Len(tasks) |->
                 [event |-> tasks[i].event, data |-> tasks[i].data,
                  timestamp |-> tasks[i].timestamp, priority |-> tasks[i].priority]]]

\* createMergedMessage(type, tasks); each entry of data.events also keeps the
\* priority of its task, which the frame on the wire does not carry
createMergedMessage(type, tasks) ==
  IF Len(tasks) = 1
  THEN [event |-> tasks[1].event, type |-> type, code |-> "", types |-> <<>>,
        events |-> <<>>, data |-> tasks[1].data]
  ELSE [event |-> "batch_update", type |-> type, code |-> "", types |-> <<>>,
        events |-> [i \in 1..Len(tasks) |->
                      [event |-> tasks[i].event, data |-> tasks[i].data,
                       timestamp |-> tasks[i].timestamp,
                       priority |-> tasks[i].priority]]]

\* a lookup that passes over the connections subscribed to 'all'
getConnectionsByExactSubscription(conns, type) ==
  {id \in DOMAIN conns : type \in conns[id].subscriptions}

\* ConnectionManager.getConnectionsBySubscription(type), as a set of ids
getConnectionsBySubscription(conns, type) ==
  {id \in DOMAIN conns :
     type \in conns[id].subscriptions \/ "all" \in conns[id].subscriptions}

\* sendToConnection for every connection of ids
sendToConnections(conns, socks, out, ids, message) ==
  [x \in DOMAIN out |->
     IF x \in ids /\ x \in DOMAIN conns /\ conns[x].isAlive
        /\ socks[x].readyState = "OPEN"
     THEN Append(out[x], message)
     ELSE out[x]]

\* a broadcastBatch that waits at a group without a subscriber and never
\* passes it
broadcastBatchWaitingForSubscriber(conns, socks, out, groups) ==
  IF groups = <<>> THEN [sent |-> out, groups |-> <<>>, awaited |-> FALSE]
  ELSE LET group == Head(groups)
           ids == getConnectionsBySubscription(conns, group.type)
       IN  IF ids = {}
           THEN [sent |-> out, groups |-> groups, awaited |-> TRUE]
           ELSE [sent |-> sendToConnections(conns, socks, out, ids,
                                            createMergedMessage(group.type, group.tasks)),
                 groups |-> Tail(groups), awaited |-> TRUE]

\* broadcastBatch from its start or after an await, up to its next await: the
\* groups without a subscriber are passed over, the first group with one is
\* sent; what is returned is the outbox and the groups still to be handled
RECURSIVE broadcastBatch(_, _, _, _)
broadcastBatch(conns, socks, out, groups) ==
  IF groups = <<>> THEN [sent |-> out, groups |-> <<>>, awaited |-> FALSE]
  ELSE LET group == Head(groups)
           ids == getConnectionsBySubscription(conns, group.type)
       IN  IF ids = {}
           THEN broadcastBatch(conns, socks, out, Tail(groups))
           ELSE [sent |-> sendToConnections(conns, socks, out, ids,
                                            createMergedMessage(group.type, group.tasks)),
                 groups |-> Tail(groups), awaited |-> TRUE]

HubInit ==
  /\ messageQueue = <<>>
  /\ isProcessing = FALSE
  /\ inflight = <<>>
  /\ drainBatch = <<>>
  /\ drainFrom = <<>>
  /\ dropped = {}
  /\ immediates = 0
  /\ flushTimer = TRUE
  /\ nextTask = 1

\* the number of frames written to each transport so far
SentSoFar == [s \in DOMAIN sent |-> Len(sent[s])]

\* a processQueue that does not look at isProcessing
processQueueReentrant(q, processing, conns, socks, out) ==
  IF Len(q) = 0
  THEN [messageQueue |-> q, isProcessing |-> processing, started |-> FALSE,
        sent |-> out, inflight |-> <<>>, batch |-> <<>>]
  ELSE LET sorted == sortQueue(q)
           n == IF Len(sorted) < broadcastBatchSize THEN Len(sorted) ELSE broadcastBatchSize
           batch == SubSeq(sorted, 1, n)
           r == broadcastBatch(conns, socks, out, groupByType(batch))
       IN  [messageQueue |-> SubSeq(sorted, n + 1, Len(sorted)), isProcessing |-> TRUE,
            started |-> TRUE, sent |-> r.sent, inflight |-> r.groups, batch |-> batch]

\* processQueue() up to its first await
processQueue(q, processing, conns, socks, out) ==
  IF processing \/ Len(q) = 0
  THEN [messageQueue |-> q, isProcessing |-> processing, started |-> FALSE,
        sent |-> out, inflight |-> <<>>, batch |-> <<>>]
  ELSE LET sorted == sortQueue(q)
           n == IF Len(sorted) < broadcastBatchSize THEN Len(sorted) ELSE broadcastBatchSize
           batch == SubSeq(sorted, 1, n)
           r == broadcastBatch(conns, socks, out, groupByType(batch))
       IN  [messageQueue |-> SubSeq(sorted, n + 1, Len(sorted)), isProcessing |-> TRUE,
            started |-> TRUE, sent |-> r.sent, inflight |-> r.groups, batch |-> batch]

\* an enqueue that pushes and leaves every drain to the flush timer
hubEnqueueWithoutDrain(q, processing, conns, socks, out, task) ==
  [messageQueue |-> Append(q, task), isProcessing |-> processing, started |-> FALSE,
   sent |-> out, inflight |-> <<>>, batch |-> <<>>]

\* enqueue(task): push, and processQueue() for a high priority task
hubEnqueue(q, processing, conns, socks, out, task) ==
  IF task.priority = "high"
  THEN processQueue(Append(q, task), processing, conns, socks, out)
  ELSE [messageQueue |-> Append(q, task), isProcessing |-> processing, started |-> FALSE,
        sent |-> out, inflight |-> <<>>, batch |-> <<>>]

\* broadcast(type, event, data, priority): enqueue with timestamp Date.now()
Broadcast(type, priority) ==
  /\ nextTask <= MaxTasks
  /\ nextTask' = nextTask + 1
  /\ LET task == [type |-> type, event |-> EventOf(type), data |-> nextTask,
                  priority |-> priority, timestamp |-> now]
         r == hubEnqueue(messageQueue, isProcessing, connections, socket, sent, task)
     IN  /\ messageQueue' = r.messageQueue
         /\ isProcessing' = r.isProcessing
         /\ sent' = r.sent
         /\ inflight' = IF r.started THEN r.inflight ELSE inflight
         /\ drainBatch' = IF r.started THEN r.batch ELSE drainBatch
         /\ drainFrom' = IF r.started THEN SentSoFar ELSE drainFrom
  /\ UNCHANGED <<immediates, flushTimer, nextFrame, dropped>>
  /\ UNCHANGED notHubVars

\* the flush timer fires: flush()
Flush ==
  /\ flushTimer
  /\ Len(messageQueue) > 0 /\ ~isProcessing
  /\ LET r == processQueue(messageQueue, isProcessing, connections, socket, sent)
     IN  /\ messageQueue' = r.messageQueue
         /\ isProcessing' = r.isProcessing
         /\ sent' = r.sent
         /\ inflight' = r.inflight
         /\ drainBatch' = r.batch
         /\ drainFrom' = SentSoFar
  /\ UNCHANGED <<immediates, flushTimer, nextTask, nextFrame, dropped>>
  /\ UNCHANGED notHubVars

\* processQueue resumes after an await: the next group with a subscriber is
\* sent, or the batch is over, isProcessing is reset and, when tasks are
\* left, processQueue is scheduled with setImmediate
ProcessQueueContinue ==
  /\ isProcessing
  /\ LET r == broadcastBatch(connections, socket, sent, inflight)
     IN  IF r.awaited
         THEN /\ sent' = r.sent
              /\ inflight' = r.groups
              /\ UNCHANGED <<isProcessing, immediates, drainBatch, drainFrom>>
         ELSE /\ isProcessing' = FALSE
              /\ inflight' = <<>>
              /\ drainBatch' = <<>>
              /\ drainFrom' = <<>>
              /\ immediates' = IF Len(messageQueue) > 0 THEN immediates + 1 ELSE immediates
              /\ UNCHANGED sent
  /\ UNCHANGED <<messageQueue, flushTimer, nextTask, nextFrame, dropped>>
  /\ UNCHANGED notHubVars

\* a setImmediate callback runs: processQueue()
Immediate ==
  /\ immediates > 0
  /\ immediates' = immediates - 1
  /\ LET r == processQueue(messageQueue, isProcessing, connections, socket, sent)
     IN  /\ messageQueue' = r.messageQueue
         /\ isProcessing' = r.isProcessing
         /\ sent' = r.sent
         /\ inflight' = IF r.started THEN r.inflight ELSE inflight
         /\ drainBatch' = IF r.started THEN r.batch ELSE drainBatch
         /\ drainFrom' = IF r.started THEN SentSoFar ELSE drainFrom
  /\ UNCHANGED <<flushTimer, nextTask, nextFrame, dropped>>
  /\ UNCHANGED notHubVars

\* the message broadcastUrgent builds
UrgentMessage(type, event, data) ==
  [event |-> event, type |-> type, code |-> "", types |-> <<>>, events |-> <<>>,
   data |-> data]

\* broadcastUrgent(type, event, data): sent at once to the subscribers of the
\* type, past the queue
BroadcastUrgent(type) ==
  /\ nextTask <= MaxTasks
  /\ nextTask' = nextTask + 1
  /\ LET ids == getConnectionsBySubscription(connections, type)
     IN  sent' = IF ids = {} THEN sent
                 ELSE sendToConnections(connections, socket, sent, ids,
                                        UrgentMessage(type, EventOf(type), nextTask))
  /\ UNCHANGED <<messageQueue, isProcessing, inflight, drainBatch, drainFrom, immediates,
                 flushTimer, nextFrame, dropped>>
  /\ UNCHANGED notHubVars

\* a stop() that cancels the timer and leaves the queue as it is
stopKeepingQueue(q, timer) == [messageQueue |-> q, flushTimer |-> FALSE]

\* stop(): clearInterval(flushTimer) and clearQueue()
stop(q, timer) == [messageQueue |-> <<>>, flushTimer |-> FALSE]

\* stop() is called on a scheduler whose flush loop is running
Stop ==
  /\ flushTimer
  /\ LET r == stop(messageQueue, flushTimer)
     IN  /\ flushTimer' = r.flushTimer
         /\ messageQueue' = r.messageQueue
  /\ dropped' = Range(messageQueue)
  /\ UNCHANGED <<isProcessing, inflight, drainBatch, drainFrom, immediates, nextTask, sent,
                 nextFrame>>
  /\ UNCHANGED notHubVars

\* the types handed to broadcast, to broadcastUrgent and to the endpoint:
\* neither of them looks at the type
FanOutTypes == VALID_MESSAGE_TYPES \ {"all"}

\* POST /broadcast with the secret, a type and an event:
\* broadcastScheduler.broadcast(type, event, data, priority)
PostBroadcast(type, priority) == Broadcast(type, priority)

\* the client frames of the hub specification
HubFrames ==
  {Frame("subscribe", TRUE, <<"stats">>), Frame("subscribe", TRUE, <<"all">>),
   Frame("unsubscribe", TRUE, <<"status">>)}

\* the registered connections whose transport has left OPEN
DeadTransports == {s \in DOMAIN connections : socket[s].readyState # "OPEN"}

\* the transports offered and lost, frames received, broadcasts made and clock
\* ticks of a behaviour of the hub are MaxHubInputs at most
HubInputsLeft ==
  (nextSock - 1) + (nextFrame - 1) + (nextTask - 1) + now + Cardinality(DeadTransports)
    < MaxHubInputs

HubNext ==
  \/ HubInputsLeft /\ \E u \in Users : GatewayOpen(u)
  \/ HubInputsLeft /\ \E s \in 1..MaxSessions, f \in HubFrames : GatewayMessage(s, f)
  \/ HubInputsLeft /\ \E type \in TaskTypes, p \in TaskPriorities : Broadcast(type, p)
  \/ HubInputsLeft /\ \E type \in TaskTypes : BroadcastUrgent(type)
  \/ HubInputsLeft /\ Tick
  \/ \E s \in 1..MaxSessions : GatewayClose(s)
  \/ HubInputsLeft /\ ~isProcessing /\ \E s \in 1..MaxSessions : SocketCloses(s)
  \/ Flush
  \/ ProcessQueueContinue
  \/ Immediate
  \/ Stop

(***************************************************************************)
(* Standalone MessageRouter (src/message-router.js)                        *)
(***************************************************************************)

DEFAULT_MAX_MESSAGE_SIZE == 65536

RESERVED_TYPES == {"error"}

\* the types and callbacks handed to the standalone router
RouterTypes == {"error", "status"}

Callbacks == {"cb1", "cb2"}

RouterInit ==
  /\ subscribers = <<>>
  /\ routerRet = [op |-> "new", type |-> "", success |-> TRUE]

\* subscribe without the test for a reserved type
subscribeAnyType(subs, type, callback) ==
  [subscribers |->
     [t \in DOMAIN subs \cup {type} |->
        IF t = type
        THEN (IF type \in DOMAIN subs THEN subs[type] ELSE {}) \cup {callback}
        ELSE subs[t]],
   success |-> TRUE]

\* MessageRouter.subscribe(type, callback)
subscribe(subs, type, callback) ==
  IF type \in RESERVED_TYPES
  THEN [subscribers |-> subs, success |-> FALSE]
  ELSE [subscribers |->
          [t \in DOMAIN subs \cup {type} |->
             IF t = type
             THEN (IF type \in DOMAIN subs THEN subs[type] ELSE {}) \cup {callback}
             ELSE subs[t]],
        success |-> TRUE]

RouterSubscribe(type, callback) ==
  /\ nextFrame' = nextFrame + 1
  /\ LET r == subscribe(subscribers, type, callback)
     IN  /\ subscribers' = r.subscribers
         /\ routerRet' = [op |-> "subscribe", type |-> type, success |-> r.success]
  /\ UNCHANGED notRouterVars

\* the unsubscribe closure returned by a successful subscribe
RouterUnsubscribe(type, callback) ==
  /\ type \in DOMAIN subscribers
  /\ nextFrame' = nextFrame + 1
  /\ subscribers' = [subscribers EXCEPT ![type] = @ \ {callback}]
  /\ routerRet' = [op |-> "unsubscribe", type |-> type, success |-> TRUE]
  /\ UNCHANGED notRouterVars

\* the callbacks that throw when they are called
Throwing == {"cb2"}

\* a publish that gives up at the first callback that throws
publishStoppingAtThrow(subs, maxMessageSize, type, messageSize) ==
  IF messageSize > maxMessageSize THEN [success |-> FALSE, calls |-> <<>>]
  ELSE [success |-> TRUE,
        calls |-> IF type \notin DOMAIN subs THEN <<>>
                  ELSE IF subs[type] \cap Throwing # {}
                       THEN [c \in subs[type] \cap Throwing |-> 1]
                       ELSE [c \in subs[type] |-> 1]]

\* MessageRouter.publish(message) for a message of the given type and
\* serialized size: whether it succeeds and how often it calls each callback
publish(subs, maxMessageSize, type, messageSize) ==
  IF messageSize > maxMessageSize THEN [success |-> FALSE, calls |-> <<>>]
  ELSE [success |-> TRUE,
        calls |-> IF type \in DOMAIN subs THEN [c \in subs[type] |-> 1] ELSE <<>>]

\* publish(message) is called
RouterPublish(type, messageSize) ==
  /\ nextFrame' = nextFrame + 1
  /\ LET r == publish(subscribers, DEFAULT_MAX_MESSAGE_SIZE, type, messageSize)
     IN  routerRet' = [op |-> "publish", type |-> type, success |-> r.success,
                       calls |-> r.calls]
  /\ UNCHANGED subscribers
  /\ UNCHANGED notRouterVars

\* the sizes of the messages published: the largest allowed and one byte more
MessageSizes == {DEFAULT_MAX_MESSAGE_SIZE, DEFAULT_MAX_MESSAGE_SIZE + 1}

\* a call on the standalone router
RouterCall ==
  \/ \E t \in RouterTypes, c \in Callbacks : RouterSubscribe(t, c)
  \/ \E t \in RouterTypes, c \in Callbacks : RouterUnsubscribe(t, c)
  \/ \E t \in RouterTypes, n \in MessageSizes : RouterPublish(t, n)

RouterNext ==
  \/ \E u \in Users : GatewayOpen(u)
  \/ \E s \in 1..MaxSessions, f \in ClientFrames : GatewayMessage(s, f)
  \/ \E s \in 1..MaxSessions : GatewayClose(s)
  \/ nextFrame <= MaxFrames /\ RouterCall

\* the standalone router on its own, for MaxRouterCalls calls
PubSubNext == nextFrame <= MaxRouterCalls /\ RouterCall

(***************************************************************************)
(* ChangeDetector of the backend: health alerts                            *)
(* (backend/src/websocket/change-detector.ts, 330-393)                     *)
(***************************************************************************)

\* the default thresholds of the configuration, in percent
cpuThreshold == 80
memoryThreshold == 80
diskThreshold == 90

\* how far above its threshold a value is critical
CRITICAL_MARGIN == 15

\* the usages a status of the model reports for each component
CpuUsages == {70, 85, 95, 96}

MemoryUsages == {70, 85}

DiskUsages == {65}

\* a level test that takes the bounds themselves as exceeded
getAlertLevelInclusive(value, threshold) ==
  IF value >= threshold + CRITICAL_MARGIN THEN "critical"
  ELSE IF value >= threshold THEN "warning"
  ELSE "info"

\* getAlertLevel(value, threshold)
getAlertLevel(value, threshold) ==
  IF value > threshold + CRITICAL_MARGIN THEN "critical"
  ELSE IF value > threshold THEN "warning"
  ELSE "info"

\* the checks of checkHealthAlerts for a status, in order
healthChecks(status) ==
  <<[name |-> "cpu", value |-> status.cpuUsage, threshold |-> cpuThreshold],
    [name |-> "memory", value |-> status.memoryUsage, threshold |-> memoryThreshold],
    [name |-> "disk", value |-> status.diskUsage, threshold |-> diskThreshold]>>

\* the two broadcasts of checkHealthAlerts
HealthAlert(check, level) ==
  [type |-> "health", event |-> "health_alert", component |-> check.name, level |-> level,
   threshold |-> check.threshold, currentValue |-> check.value,
   priority |-> IF level = "critical" THEN "high" ELSE "normal"]

HealthRecovery(check) ==
  [type |-> "health", event |-> "health_recovery", component |-> check.name,
   priority |-> "normal"]

\* the body of the loop of checkHealthAlerts for one check
checkOne(last, check) ==
  LET currentLevel == getAlertLevel(check.value, check.threshold)
      known == check.name \in DOMAIN last
      recorded == [c \in DOMAIN last \cup {check.name} |->
                     IF c = check.name THEN [value |-> check.value, level |-> currentLevel]
                     ELSE last[c]]
  IN  IF ~known \/ last[check.name].level # currentLevel
      THEN IF currentLevel # "info"
           THEN [last |-> recorded, broadcasts |-> <<HealthAlert(check, currentLevel)>>]
           ELSE IF known /\ last[check.name].level # "info"
           THEN [last |-> recorded, broadcasts |-> <<HealthRecovery(check)>>]
           ELSE [last |-> recorded, broadcasts |-> <<>>]
      ELSE [last |-> last, broadcasts |-> <<>>]

\* checkHealthAlerts: the loop over the checks
RECURSIVE checkHealthAlerts(_, _)
checkHealthAlerts(last, checks) ==
  IF checks = <<>> THEN [last |-> last, broadcasts |-> <<>>]
  ELSE LET first == checkOne(last, Head(checks))
           rest == checkHealthAlerts(first.last, Tail(checks))
       IN  [last |-> rest.last, broadcasts |-> first.broadcasts \o rest.broadcasts]

DetectorInit ==
  /\ lastHealthStatus = <<>>
  /\ healthSamples = <<>>
  /\ healthLog = <<>>
  /\ lastStatus = <<>>
  /\ statusLog = <<>>

\* one round of checkAndBroadcast with a status: checkHealthAlerts()
CheckHealth(status) ==
  /\ Len(healthSamples) < MaxSamples
  /\ LET r == checkHealthAlerts(lastHealthStatus, healthChecks(status))
     IN  /\ lastHealthStatus' = r.last
         /\ healthLog' = Append(healthLog, r.broadcasts)
  /\ healthSamples' = Append(healthSamples, status)
  /\ UNCHANGED notDetectorVars

DetectorNext ==
  \E cpu \in CpuUsages, memory \in MemoryUsages, disk \in DiskUsages :
    CheckHealth([cpuUsage |-> cpu, memoryUsage |-> memory, diskUsage |-> disk])

(***************************************************************************)
(* ChangeDetector of the backend: status changes                           *)
(* (backend/src/websocket/change-detector.ts, 122-252)                     *)
(***************************************************************************)
\* fieldsToMonitor of detectStatusChanges, in order
fieldsToMonitor ==
  <<"cpuUsage", "memoryUsage", "diskUsage", "activeConnections", "systemOnline">>

\* the statuses fetchCurrentStatus returns in the model
StatusSamples ==
  [cpuUsage : {60, 70, 85, 95}, memoryUsage : {60, 85}, diskUsage : {65, 66},
   activeConnections : {0, 1}, systemOnline : BOOLEAN]

\* detectStatusChanges(oldStatus, currentStatus): one change for each
\* monitored field whose value differs, in the order of the fields
detectStatusChanges(oldStatus, currentStatus) ==
  LET changed == SelectSeq(fieldsToMonitor,
                           LAMBDA field : oldStatus[field] # currentStatus[field])
  IN  [i \in 1..Len(changed) |->
         [field |-> changed[i], oldValue |-> oldStatus[changed[i]],
          newValue |-> currentStatus[changed[i]]]]

\* a priority that is normal from three changes on
calculateStatusPriorityFromThree(changes) ==
  IF \E i \in 1..Len(changes) :
       /\ changes[i].field \in {"cpuUsage", "memoryUsage"}
       /\ changes[i].newValue >
            (IF changes[i].field = "cpuUsage" THEN cpuThreshold ELSE memoryThreshold)
  THEN "high"
  ELSE IF Len(changes) >= 3 THEN "normal"
  ELSE "low"

\* calculateStatusPriority(changes)
calculateStatusPriority(changes) ==
  IF \E i \in 1..Len(changes) :
       /\ changes[i].field \in {"cpuUsage", "memoryUsage"}
       /\ changes[i].newValue >
            (IF changes[i].field = "cpuUsage" THEN cpuThreshold ELSE memoryThreshold)
  THEN "high"
  ELSE IF Len(changes) > 3 THEN "normal"
  ELSE "low"

\* the broadcast of a status: type 'status', event 'status_update'
StatusUpdate(status, changes, priority) ==
  [type |-> "status", event |-> "status_update", status |-> status, changes |-> changes,
   priority |-> priority]

\* the changes of the first status: the single field 'all'
FirstChanges == <<[field |-> "all"]>>

\* one round of checkAndBroadcast with a status: checkStatusChange()
CheckStatus(currentStatus) ==
  /\ IF lastStatus = <<>>
     THEN statusLog' = <<StatusUpdate(currentStatus, FirstChanges, "normal")>>
     ELSE LET changes == detectStatusChanges(lastStatus[1], currentStatus)
          IN  statusLog' =
                IF Len(changes) > 0
                THEN <<StatusUpdate(currentStatus, changes, calculateStatusPriority(changes))>>
                ELSE <<>>
  /\ lastStatus' = <<currentStatus>>
  /\ UNCHANGED <<lastHealthStatus, healthSamples, healthLog>>
  /\ UNCHANGED <<queueVars, regVars, gwVars, srVars, hubVars, clientVars, histVars>>

StatusNext == \E status \in StatusSamples : CheckStatus(status)

(***************************************************************************)
(* WebSocketClient of the frontend (src/unnamed/part_004)                  *)
(***************************************************************************)

\* the cap of the reconnect delay, in ms
MAX_RECONNECT_DELAY == 30000

\* the reconnectInterval options of the model, in ms (the default is 3000)
ReconnectIntervals == {3000, 25000}

MaxAttemptsError == "Max reconnection attempts reached"

ConnectionError == "WebSocket connection error"

RECURSIVE Pow(_, _)
Pow(b, k) == IF k <= 0 THEN 1 ELSE b * Pow(b, k - 1)

\* Math.min(baseInterval * Math.pow(1.5, attempts - 1), 30000) as a fraction
\* of two integers: 1.5^k is 3^k / 2^k
reconnectDelay(baseInterval, attempts) ==
  LET num == baseInterval * Pow(3, attempts - 1)
      den == Pow(2, attempts - 1)
  IN  IF num <= MAX_RECONNECT_DELAY * den
      THEN [num |-> num, den |-> den]
      ELSE [num |-> MAX_RECONNECT_DELAY, den |-> 1]

\* the test of attemptReconnect with > for >=
reconnectLimitReachedLate(attempts) == attempts > maxReconnectAttempts

\* this.reconnectAttempts >= this.options.maxReconnectAttempts
reconnectLimitReached(attempts) == attempts >= maxReconnectAttempts

\* the frames the client writes
PingMessage == [action |-> "ping", types |-> <<>>]

SubscribeMessage(types) == [action |-> "subscribe", types |-> types]

UnsubscribeMessage(types) == [action |-> "unsubscribe", types |-> types]

\* an application frame, numbered by the call that sends it
AppMessage(n) == [action |-> "ack", types |-> <<>>, n |-> n]

\* the last step was an event or a timer, not a call of the application
NoCall == [op |-> "none", before |-> "", ret |-> FALSE]

\* a call of the application made in state before that returned ret
Called(op, before, ret) == [op |-> op, before |-> before, ret |-> ret]

ClientInit ==
  /\ state = "disconnected"
  /\ ws = 0
  /\ sockets = <<>>
  /\ wire = <<>>
  /\ reconnectInterval \in ReconnectIntervals
  /\ reconnectAttempts = 0
  /\ totalAttempts = 0
  /\ reconnectTimer = FALSE
  /\ orphanTimers = 0
  /\ heartbeatTimer = FALSE
  /\ orphanHeartbeats = 0
  /\ lastPongTime = 0
  /\ clientQueue = <<>>
  /\ clientSubscriptions = <<>>
  /\ clientConnectionId = ""
  /\ lastError = ""
  /\ delay = [num |-> 0, den |-> 1]
  /\ hung = FALSE
  /\ nextCall = 1
  /\ lastCall = NoCall

\* a client that was constructed with autoConnect false and never used
ClientIdle ==
  /\ state = "disconnected"
  /\ ws = 0
  /\ sockets = <<>>
  /\ wire = <<>>
  /\ reconnectInterval = 3000
  /\ reconnectAttempts = 0
  /\ totalAttempts = 0
  /\ reconnectTimer = FALSE
  /\ orphanTimers = 0
  /\ heartbeatTimer = FALSE
  /\ orphanHeartbeats = 0
  /\ lastPongTime = 0
  /\ clientQueue = <<>>
  /\ clientSubscriptions = <<>>
  /\ clientConnectionId = ""
  /\ lastError = ""
  /\ delay = [num |-> 0, den |-> 1]
  /\ hung = FALSE
  /\ nextCall = 1
  /\ lastCall = NoCall

\* the client's fields as one record, for the operators below
Client ==
  [state |-> state, ws |-> ws, sockets |-> sockets, wire |-> wire,
   reconnectAttempts |-> reconnectAttempts, totalAttempts |-> totalAttempts,
   reconnectTimer |-> reconnectTimer, orphanTimers |-> orphanTimers,
   heartbeatTimer |-> heartbeatTimer, orphanHeartbeats |-> orphanHeartbeats,
   lastPongTime |-> lastPongTime, clientQueue |-> clientQueue,
   clientSubscriptions |-> clientSubscriptions, connectionId |-> clientConnectionId,
   lastError |-> lastError, delay |-> delay, hung |-> hung]

\* the record written back to the fields
SetClient(c) ==
  /\ state' = c.state
  /\ ws' = c.ws
  /\ sockets' = c.sockets
  /\ wire' = c.wire
  /\ reconnectAttempts' = c.reconnectAttempts
  /\ totalAttempts' = c.totalAttempts
  /\ reconnectTimer' = c.reconnectTimer
  /\ orphanTimers' = c.orphanTimers
  /\ heartbeatTimer' = c.heartbeatTimer
  /\ orphanHeartbeats' = c.orphanHeartbeats
  /\ lastPongTime' = c.lastPongTime
  /\ clientQueue' = c.clientQueue
  /\ clientSubscriptions' = c.clientSubscriptions
  /\ clientConnectionId' = c.connectionId
  /\ lastError' = c.lastError
  /\ delay' = c.delay
  /\ hung' = c.hung
  /\ UNCHANGED reconnectInterval

\* this.ws?.readyState === WebSocket.OPEN
wsIsOpen(c) == c.ws # 0 /\ c.sockets[c.ws] = "OPEN"

\* WebSocket.close() on transport id: the closing handshake starts
closeSocket(socks, id) ==
  IF id # 0 /\ socks[id] \in {"CONNECTING", "OPEN"}
  THEN [socks EXCEPT ![id] = "CLOSING"]
  ELSE socks

\* cleanup(): both timers are cleared
cleanup(c) == [c EXCEPT !.reconnectTimer = FALSE, !.heartbeatTimer = FALSE]

\* send(message): written to the transport, or queued when not connected
send(c, message) ==
  IF c.state = "connected" /\ wsIsOpen(c)
  THEN [c EXCEPT !.wire[c.ws] = Append(@, message)]
  ELSE [c EXCEPT !.clientQueue = Append(@, message)]

\* what send(message) returns: true when the frame was written
sendReturns(c) == c.state = "connected" /\ wsIsOpen(c)

\* send(message) for each message of a sequence, in order
RECURSIVE sendAll(_, _)
sendAll(c, messages) ==
  IF messages = <<>> THEN c ELSE sendAll(send(c, Head(messages)), Tail(messages))

\* flushMessageQueue(): every queued message is shifted and sent, then the
\* subscriptions are sent again; when send() queues the message again the
\* loop never ends
flushMessageQueue(c) ==
  IF Len(c.clientQueue) = 0 THEN c
  ELSE IF ~(c.state = "connected" /\ wsIsOpen(c))
  THEN [c EXCEPT !.hung = TRUE]
  ELSE LET flushed == sendAll([c EXCEPT !.clientQueue = <<>>], c.clientQueue)
       IN  IF Len(flushed.clientSubscriptions) > 0
           THEN send(flushed, SubscribeMessage(flushed.clientSubscriptions))
           ELSE flushed

\* startHeartbeat(): a new interval; the handle of an earlier one is lost
startHeartbeat(c) ==
  [c EXCEPT !.orphanHeartbeats = IF c.heartbeatTimer THEN @ + 1 ELSE @,
            !.heartbeatTimer = TRUE]

\* handleOpen()
handleOpen(c, t) ==
  flushMessageQueue(startHeartbeat(
    [c EXCEPT !.state = "connected", !.reconnectAttempts = 0, !.lastPongTime = t]))

\* attemptReconnect()
attemptReconnect(c) ==
  IF reconnectLimitReached(c.reconnectAttempts)
  THEN [c EXCEPT !.state = "disconnected", !.lastError = MaxAttemptsError]
  ELSE [c EXCEPT !.state = "reconnecting",
                 !.reconnectAttempts = @ + 1,
                 !.totalAttempts = @ + 1,
                 !.delay = reconnectDelay(reconnectInterval, c.reconnectAttempts + 1),
                 !.orphanTimers = IF c.reconnectTimer THEN @ + 1 ELSE @,
                 !.reconnectTimer = TRUE]

\* handleClose()
handleClose(c) ==
  LET cleaned == [cleanup(c) EXCEPT !.connectionId = ""]
  IN  IF cleaned.state # "disconnected" THEN attemptReconnect(cleaned) ELSE cleaned

\* a connect() that opens a transport whatever the state is
connectAlways(c, id) ==
  [c EXCEPT !.state = "connecting",
            !.ws = id,
            !.sockets = [x \in DOMAIN c.sockets \cup {id} |->
                           IF x = id THEN "CONNECTING" ELSE c.sockets[x]],
            !.wire = [x \in DOMAIN c.wire \cup {id} |->
                        IF x = id THEN <<>> ELSE c.wire[x]]]

\* connect()
connect(c, id) ==
  IF c.state = "connected" \/ c.state = "connecting" THEN c
  ELSE [c EXCEPT !.state = "connecting",
                 !.ws = id,
                 !.sockets = [x \in DOMAIN c.sockets \cup {id} |->
                                IF x = id THEN "CONNECTING" ELSE c.sockets[x]],
                 !.wire = [x \in DOMAIN c.wire \cup {id} |->
                             IF x = id THEN <<>> ELSE c.wire[x]]]

\* disconnect()
disconnect(c) ==
  [cleanup(c) EXCEPT !.sockets = closeSocket(c.sockets, c.ws),
                     !.ws = 0,
                     !.state = "disconnected",
                     !.connectionId = ""]

\* the next transport the client would create
nextWs == Len(sockets) + 1

\* the application calls connect()
Connect ==
  /\ ~hung
  /\ nextWs <= MaxClientSockets
  /\ SetClient(connect(Client, nextWs))
  /\ lastCall' = Called("connect", state, FALSE)
  /\ UNCHANGED nextCall
  /\ UNCHANGED notClientVars

\* the application calls disconnect()
Disconnect ==
  /\ ~hung
  /\ SetClient(disconnect(Client))
  /\ lastCall' = Called("disconnect", state, FALSE)
  /\ UNCHANGED nextCall
  /\ UNCHANGED notClientVars

\* the open event of a transport: handleOpen()
SocketOpen(id) ==
  /\ ~hung
  /\ id \in DOMAIN sockets
  /\ sockets[id] = "CONNECTING"
  /\ SetClient(handleOpen([Client EXCEPT !.sockets[id] = "OPEN"], now))
  /\ lastCall' = NoCall
  /\ UNCHANGED nextCall
  /\ UNCHANGED notClientVars

\* the close event of a transport, after an error event or without one:
\* handleError() and handleClose()
SocketClose(id, withError) ==
  /\ ~hung
  /\ id \in DOMAIN sockets
  /\ sockets[id] # "CLOSED"
  /\ (sockets[id] = "CONNECTING" => withError)
  /\ LET c == [Client EXCEPT !.sockets[id] = "CLOSED",
                             !.lastError = IF withError THEN ConnectionError ELSE @]
     IN  SetClient(handleClose(c))
  /\ lastCall' = NoCall
  /\ UNCHANGED nextCall
  /\ UNCHANGED notClientVars

\* the reconnect timer fires: connect()
ReconnectTimerFires ==
  /\ ~hung
  /\ reconnectTimer \/ orphanTimers > 0
  /\ nextWs <= MaxClientSockets
  /\ \E tracked \in {TRUE, FALSE} :
       /\ IF tracked THEN reconnectTimer ELSE orphanTimers > 0
       /\ LET c == IF tracked THEN [Client EXCEPT !.reconnectTimer = FALSE]
                   ELSE [Client EXCEPT !.orphanTimers = @ - 1]
          IN  SetClient(connect(c, nextWs))
  /\ lastCall' = NoCall
  /\ UNCHANGED nextCall
  /\ UNCHANGED notClientVars

\* a heartbeat test that takes a silence of exactly heartbeatTimeout as too long
heartbeatTimedOutInclusive(pong, t) == t - pong >= heartbeatTimeout

\* timeSinceLastPong > timeout
heartbeatTimedOut(pong, t) == t - pong > heartbeatTimeout

\* the heartbeat interval fires: the transport is closed after a silence
\* longer than heartbeatTimeout, otherwise ping(); the pings are counted
\* among the calls
HeartbeatFires ==
  /\ ~hung
  /\ heartbeatTimer \/ orphanHeartbeats > 0
  /\ IF heartbeatTimedOut(lastPongTime, now)
     THEN /\ SetClient([Client EXCEPT !.sockets = closeSocket(sockets, ws)])
          /\ UNCHANGED nextCall
     ELSE /\ SetClient(send(Client, PingMessage))
          /\ nextCall <= MaxClientCalls
          /\ nextCall' = nextCall + 1
  /\ lastCall' = NoCall
  /\ UNCHANGED notClientVars

\* handleMessage(event) for a 'pong' or a 'connected' frame
handleMessage(c, event, t) ==
  IF event = "pong" THEN [c EXCEPT !.lastPongTime = t]
  ELSE IF event = "connected" THEN [c EXCEPT !.connectionId = "id"]
  ELSE c

\* a frame of the server arrives on an open transport: handleMessage()
MessageArrives(id, event) ==
  /\ ~hung
  /\ id \in DOMAIN sockets
  /\ sockets[id] = "OPEN"
  /\ SetClient(handleMessage(Client, event, now))
  /\ lastCall' = NoCall
  /\ nextCall <= MaxClientCalls
  /\ nextCall' = nextCall + 1
  /\ UNCHANGED notClientVars

\* the application calls subscribe(types)
ClientSubscribe(types) ==
  /\ ~hung
  /\ LET added == SelectSeq(types, LAMBDA type : type \notin Range(clientSubscriptions))
         c == [Client EXCEPT !.clientSubscriptions = @ \o added]
     IN  SetClient(IF state = "connected" THEN send(c, SubscribeMessage(types)) ELSE c)
  /\ lastCall' = Called("subscribe", state, FALSE)
  /\ nextCall <= MaxClientCalls
  /\ nextCall' = nextCall + 1
  /\ UNCHANGED notClientVars

\* the application calls unsubscribe(types)
ClientUnsubscribe(types) ==
  /\ ~hung
  /\ LET c == [Client EXCEPT !.clientSubscriptions =
                                SelectSeq(@, LAMBDA type : type \notin Range(types))]
     IN  SetClient(IF state = "connected" THEN send(c, UnsubscribeMessage(types)) ELSE c)
  /\ lastCall' = Called("unsubscribe", state, FALSE)
  /\ nextCall <= MaxClientCalls
  /\ nextCall' = nextCall + 1
  /\ UNCHANGED notClientVars

\* the application calls send(message) with a frame of its own
ClientSend ==
  /\ ~hung
  /\ SetClient(send(Client, AppMessage(nextCall)))
  /\ lastCall' = Called("send", state, sendReturns(Client))
  /\ nextCall <= MaxClientCalls
  /\ nextCall' = nextCall + 1
  /\ UNCHANGED notClientVars

\* the type lists the application subscribes to
ClientTypeLists == {<<"status">>}

\* the life cycle of the client: its transports and its reconnect timer
ClientNext ==
  \/ Connect
  \/ Disconnect
  \/ \E id \in 1..MaxClientSockets : SocketOpen(id)
  \/ \E id \in 1..MaxClientSockets, withError \in {TRUE, FALSE} : SocketClose(id, withError)
  \/ ReconnectTimerFires

\* the client with its frames, its heartbeat and the clock, on MaxIOSockets
\* transports at most
IOSocketsLeft == Len(sockets) < MaxIOSockets

\* the transports, calls, frames and clock ticks of a run are bounded together
ClientInputsLeft == Len(sockets) + (nextCall - 1) + now < MaxClientInputs

\* a tick of the heartbeat interval: a ping is one of the inputs of the run
HeartbeatStep == (ClientInputsLeft \/ heartbeatTimedOut(lastPongTime, now)) /\ HeartbeatFires

ClientIONext ==
  \/ IOSocketsLeft /\ ClientInputsLeft /\ Connect
  \/ Disconnect
  \/ \E id \in 1..MaxIOSockets : SocketOpen(id)
  \/ \E id \in 1..MaxIOSockets, withError \in {TRUE, FALSE} : SocketClose(id, withError)
  \/ IOSocketsLeft /\ ClientInputsLeft /\ ReconnectTimerFires
  \/ HeartbeatStep
  \/ ClientInputsLeft /\ \E id \in 1..MaxIOSockets, event \in {"pong", "connected"} :
        MessageArrives(id, event)
  \/ ClientInputsLeft /\ \E types \in ClientTypeLists : ClientSubscribe(types)
  \/ ClientInputsLeft /\ \E types \in ClientTypeLists : ClientUnsubscribe(types)
  \/ ClientInputsLeft /\ ClientSend
  \/ ClientInputsLeft /\ Tick

(***************************************************************************)
(* Specifications                                                          *)
(***************************************************************************)
vars == <<queueVars, regVars, gwVars, srVars, hubVars, clientVars, detVars, histVars, statVars>>

\* a standalone scheduler constructed without options and never used
QueueIdle ==
  /\ queue = <<>>
  /\ maxQueueSize = DEFAULT_MAX_QUEUE_SIZE
  /\ isRunning = FALSE
  /\ nextMsgId = 1
  /\ lastOp = [op |-> "new"]

\* a gateway that has accepted nothing yet
GatewayInit ==
  /\ sent = <<>>
  /\ nextFrame = 1
  /\ pendingHistory = {}

\* the backend before anything happened
BackendInit == RegInit /\ GatewayInit /\ RouterInit /\ HubInit /\ DetectorInit

InitQueue == QueueInit /\ BackendInit /\ ClientIdle

InitRegistry == QueueIdle /\ BackendInit /\ ClientIdle

InitRouter == QueueIdle /\ BackendInit /\ ClientIdle

InitHub == QueueIdle /\ BackendInit /\ ClientIdle

InitGateway == QueueIdle /\ BackendInit /\ ClientIdle

InitSubscriptions == QueueIdle /\ BackendInit /\ ClientIdle

InitPubSub == QueueIdle /\ BackendInit /\ ClientIdle

InitDetector == QueueIdle /\ BackendInit /\ ClientIdle

InitClient == QueueIdle /\ BackendInit /\ ClientInit

SpecQueue == InitQueue /\ [][QueueNext]_vars

SpecRegistry == InitRegistry /\ [][RegNext]_vars

SpecRouter == InitRouter /\ [][RouterNext]_vars

SpecHub == InitHub /\ [][HubNext]_vars

SpecGateway == InitGateway /\ [][GatewayNext]_vars

SpecDetector == InitDetector /\ [][DetectorNext]_vars

SpecClient == InitClient /\ [][ClientNext]_vars

SpecSubscriptions == InitSubscriptions /\ [][SubscriptionsNext]_vars

SpecPubSub == InitPubSub /\ [][PubSubNext]_vars

SpecClientIO == InitClient /\ [][ClientIONext]_vars

\* the close event of a transport on which close() was called
ClosingCompletes ==
  \E id \in DOMAIN sockets : sockets[id] = "CLOSING" /\ SocketClose(id, FALSE)

\* the client with its heartbeat, the pongs of the server and the clock
HeartbeatNext ==
  \/ IOSocketsLeft /\ ClientInputsLeft /\ Connect
  \/ Disconnect
  \/ \E id \in 1..MaxIOSockets : SocketOpen(id)
  \/ \E id \in 1..MaxIOSockets, withError \in {TRUE, FALSE} : SocketClose(id, withError)
  \/ IOSocketsLeft /\ ClientInputsLeft /\ ReconnectTimerFires
  \/ HeartbeatStep
  \/ ClientInputsLeft /\ \E id \in 1..MaxIOSockets : MessageArrives(id, "pong")
  \/ ClientInputsLeft /\ Tick

\* the heartbeat interval keeps firing while it is set, and a transport on
\* which close() was called gets its close event
SpecHeartbeat ==
  /\ InitClient
  /\ [][HeartbeatNext]_vars
  /\ WF_vars(HeartbeatStep)
  /\ WF_vars(ClosingCompletes)

\* the scheduler with the transports that come, subscribe and fail, without
\* the clock and the urgent broadcasts
DrainNext ==
  \/ HubInputsLeft /\ \E u \in Users : GatewayOpen(u)
  \/ HubInputsLeft /\ \E s \in 1..MaxSessions, f \in HubFrames : GatewayMessage(s, f)
  \/ HubInputsLeft /\ \E type \in TaskTypes, p \in TaskPriorities : Broadcast(type, p)
  \/ HubInputsLeft /\ ~isProcessing /\ \E s \in 1..MaxSessions : SocketCloses(s)
  \/ Flush
  \/ ProcessQueueContinue
  \/ Immediate
  \/ Stop

\* flush() starts a drain exactly in these states
FlushEnabled == flushTimer /\ Len(messageQueue) > 0 /\ ~isProcessing

\* a setImmediate callback is pending
ImmediateEnabled == immediates > 0

\* the gateway with the get_history requests, their provider calls and the
\* heartbeat sweep
HistoryNext ==
  \/ GatewayInputsLeft /\ \E u \in Users : GatewayOpen(u)
  \/ GatewayInputsLeft /\ \E s \in 1..MaxSessions, payload \in HistoryPayloads :
       GatewayGetHistory(s, payload)
  \/ \E call \in pendingHistory, thrown \in BOOLEAN : HistoryResolves(call, thrown)
  \/ GatewayInputsLeft /\ Tick
  \/ \E T \in 1..MaxTimeout : Sweep(T)
  \/ \E s \in 1..MaxSessions : GatewayClose(s)

InitHistory == QueueIdle /\ BackendInit /\ ClientIdle

SpecHistory == InitHistory /\ [][HistoryNext]_vars

\* the scheduler with broadcasts of every type and connections that
\* subscribe to 'all'
FanOutNext ==
  \/ HubInputsLeft /\ \E u \in Users : GatewayOpen(u)
  \/ HubInputsLeft /\ \E s \in 1..MaxSessions :
       GatewayMessage(s, Frame("subscribe", TRUE, <<"all">>))
  \/ HubInputsLeft /\ \E type \in FanOutTypes, p \in {"high", "normal"} :
       PostBroadcast(type, p)
  \/ HubInputsLeft /\ \E type \in FanOutTypes : BroadcastUrgent(type)
  \/ Flush
  \/ ProcessQueueContinue
  \/ Immediate

InitFanOut == QueueIdle /\ BackendInit /\ ClientIdle

SpecFanOut == InitFanOut /\ [][FanOutNext]_vars

\* the gateway with get_history requests, pings, the sweep and the close
\* handler, and the scheduler with its queue and its urgent broadcasts
AfterUnregisterNext ==
  \/ HubInputsLeft /\ \E u \in Users : GatewayOpen(u)
  \/ HubInputsLeft /\ \E s \in 1..MaxSessions :
       GatewayGetHistory(s, [hasType |-> TRUE, hasLimit |-> FALSE, limit |-> 0])
  \/ HubInputsLeft /\ \E s \in 1..MaxSessions : GatewayMessage(s, Frame("ping", FALSE, <<>>))
  \/ \E call \in pendingHistory, thrown \in BOOLEAN : HistoryResolves(call, thrown)
  \/ HubInputsLeft /\ \E p \in {"high", "normal"} : Broadcast("status", p)
  \/ HubInputsLeft /\ BroadcastUrgent("status")
  \/ HubInputsLeft /\ Tick
  \/ ~isProcessing /\ \E T \in 1..MaxTimeout : Sweep(T)
  \/ \E s \in 1..MaxSessions : GatewayClose(s)
  \/ Flush
  \/ ProcessQueueContinue
  \/ Immediate

InitAfterUnregister == QueueIdle /\ BackendInit /\ ClientIdle

SpecAfterUnregister == InitAfterUnregister /\ [][AfterUnregisterNext]_vars

\* the type lists the application of a session subscribes to and unsubscribes
\* from
SessionTypeLists == {<<"status">>, <<"stats">>, <<"error">>}

\* a frame of the client as the server decodes it: type 'config', an id, a
\* numeric timestamp, the action and payload.types
FrameOf(message) == Frame(message.action, TRUE, message.types)

\* the server takes the next frame the client wrote to the transport of the
\* session: frames arrive in the order they were written
ServerReceives ==
  /\ 1 \in DOMAIN wire
  /\ nextFrame <= Len(wire[1])
  /\ GatewayMessage(1, FrameOf(wire[1][nextFrame]))

\* one session: the client connects, the gateway accepts the transport, the
\* application subscribes and unsubscribes while connected, and the server
\* handles the frames
SessionNext ==
  \/ Len(sockets) = 0 /\ Connect
  \/ nextSock = 1 /\ Len(sockets) = 1 /\ GatewayOpen("u1")
  \/ 1 \in DOMAIN connections /\ SocketOpen(1)
  \/ state = "connected" /\ \E types \in SessionTypeLists : ClientSubscribe(types)
  \/ state = "connected" /\ \E types \in SessionTypeLists : ClientUnsubscribe(types)
  \/ ServerReceives

InitSession == QueueIdle /\ BackendInit /\ ClientInit

SpecSession == InitSession /\ [][SessionNext]_vars

InitStatus == QueueIdle /\ BackendInit /\ ClientIdle

SpecStatus == InitStatus /\ [][StatusNext]_vars

\* the flush interval keeps firing while it is set, every await of a drain
\* resolves and every setImmediate callback runs: weak fairness of Flush, of
\* ProcessQueueContinue and of Immediate, the first and the last with their
\* enabling conditions written out
SpecDrain ==
  /\ InitHub
  /\ [][DrainNext]_vars
  /\ WF_vars(ProcessQueueContinue)
  /\ ([]<>(~FlushEnabled) \/ []<><<Flush>>_vars)
  /\ ([]<>(~ImmediateEnabled) \/ []<><<Immediate>>_vars)

(***************************************************************************)
(* Properties of the standalone scheduler                                  *)
(***************************************************************************)
\* low < medium < high
PriorityRank(p) == CASE p = "low" -> 0 [] p = "medium" -> 1 [] p = "high" -> 2

HasPriority(q, p) == \E i \in 1..Len(q) : q[i].priority = p

FirstOfPriority(q, p) ==
  CHOOSE i \in 1..Len(q) : q[i].priority = p /\ \A j \in 1..(i-1) : q[j].priority # p

WithoutId(q, id) == SelectSeq(q, LAMBDA m : m.id # id)

\* the last call was an enqueue on a full queue
EnqueuedOnFull == lastOp.op = "enqueue" /\ Len(lastOp.before) >= maxQueueSize

\* the enqueue was accepted by displacing the message at index i of the old queue
AcceptedDisplacing(i) ==
  /\ lastOp.ret = TRUE
  /\ lastOp.evicted = <<lastOp.before[i]>>
  /\ Len(queue) = Len(lastOp.before)
  /\ \E k \in 1..Len(queue) : queue[k] = lastOp.message
  /\ WithoutId(queue, lastOp.message.id) = RemoveAt(lastOp.before, i)

Rejected ==
  /\ lastOp.ret = FALSE
  /\ lastOp.evicted = <<>>
  /\ queue = lastOp.before

\* the standalone queue never exceeds maxQueueSize
StandaloneQueueBounded == Len(queue) <= maxQueueSize

C5_DisplacementMonotone ==
  (EnqueuedOnFull /\ lastOp.ret = TRUE) =>
    /\ Len(lastOp.evicted) = 1
    /\ PriorityRank(lastOp.evicted[1].priority) <= PriorityRank(lastOp.message.priority)
    /\ lastOp.evicted[1].priority # "high"

\* a medium task was accepted into a full queue that also held a high task
C5_Witness ==
  /\ EnqueuedOnFull
  /\ lastOp.ret = TRUE
  /\ lastOp.message.priority = "medium"
  /\ HasPriority(lastOp.before, "high")
  /\ Len(lastOp.evicted) = 1

\* every high before every medium before every low, equal priorities in the
\* order of their acceptance (ids are handed out in call order)
PriorityFifoOrdered(q) ==
  \A i, j \in 1..Len(q) :
    i < j =>
      /\ PriorityRank(q[i].priority) >= PriorityRank(q[j].priority)
      /\ (q[i].priority = q[j].priority => q[i].id < q[j].id)

\* C6: the queue is always ordered high, medium, low with equal priorities in
\* acceptance order; a high task that displaces a low task from a queue of low
\* tasks ends at the front.
C6_QueueOrdered ==
  /\ PriorityFifoOrdered(queue)
  /\ (/\ EnqueuedOnFull
      /\ lastOp.ret = TRUE
      /\ lastOp.message.priority = "high"
      /\ \A i \in 1..Len(lastOp.before) : lastOp.before[i].priority = "low")
     => queue[1] = lastOp.message

\* scenario 1: three low tasks, then a high one, which is now at the front
C6_Witness ==
  /\ EnqueuedOnFull
  /\ Len(lastOp.before) = 3
  /\ \A i \in 1..3 : lastOp.before[i].priority = "low"
  /\ lastOp.message.priority = "high"
  /\ queue = <<lastOp.message, lastOp.before[2], lastOp.before[3]>>

(***************************************************************************)
(* Properties of the connection registry                                   *)
(***************************************************************************)
ConnectionsOf(u) == {id \in DOMAIN connections : connections[id].userId = u}

\* C1: no identity ever holds more than maxConnectionsPerUser registered
\* connections and the registry never holds more than maxTotalConnections.
C1_AdmissionCaps ==
  /\ \A u \in Users : Cardinality(ConnectionsOf(u)) <= maxConnectionsPerUser
  /\ Cardinality(DOMAIN connections) <= maxTotalConnections

\* a register was refused with the registry full, one identity at its cap,
\* after a sweep had run
C1_Witness ==
  /\ registered = "MAX_CONNECTIONS_EXCEEDED"
  /\ Cardinality(DOMAIN connections) = maxTotalConnections
  /\ \E u \in Users : Cardinality(ConnectionsOf(u)) = maxConnectionsPerUser
  /\ swept.done

\* the connections a sweep with timeout T has to remove
Overdue(T) == {id \in DOMAIN connections : now - connections[id].lastHeartbeat > T}

\* what a sweep does to the registry and what it returns
SweepRemovesOverdue(T) ==
  /\ DOMAIN connections' = DOMAIN connections \ Overdue(T)
  /\ \A id \in DOMAIN connections' : connections'[id] = connections[id]
  /\ {swept'.ret[i] : i \in 1..Len(swept'.ret)} = Overdue(T)
  /\ Len(swept'.ret) = Cardinality(Overdue(T))
  /\ \A s \in DOMAIN socket \ Overdue(T) : socket'[s] = socket[s]

\* C7 as stated: a sweep removes exactly the overdue connections, returns their
\* ids, and close(1001, 'Heartbeat timeout') is called exactly once on the
\* transport of each of them.
C7_SweepClosesEach ==
  [][\A T \in 1..MaxTimeout :
       Sweep(T) =>
         /\ SweepRemovesOverdue(T)
         /\ \A id \in Overdue(T) : socket'[id].closeCalls = <<HeartbeatClose>>]_vars

\* C7 amended: close(1001, 'Heartbeat timeout') is called exactly once on the
\* transport of each swept connection that is still OPEN; on a transport that
\* has already left the OPEN state close is not called.
C7_SweepClosesOpen ==
  [][\A T \in 1..MaxTimeout :
       Sweep(T) =>
         /\ SweepRemovesOverdue(T)
         /\ \A id \in Overdue(T) :
              /\ socket'[id].readyState = "CLOSED"
              /\ socket'[id].closeCalls =
                   IF socket[id].readyState = "OPEN" THEN <<HeartbeatClose>> ELSE <<>>]_vars

\* scenario 3 with a second connection: one connection was swept and its
\* transport closed once, the other is still registered
C7_Witness ==
  /\ swept.done
  /\ Len(swept.ret) = 1
  /\ swept.ret[1] \notin DOMAIN connections
  /\ socket[swept.ret[1]].closeCalls = <<HeartbeatClose>>
  /\ Cardinality(DOMAIN connections) = 1

(***************************************************************************)
(* Properties of the routers                                               *)
(***************************************************************************)
\* C2: whatever frames are routed, no connection's subscription set contains
\* the reserved type 'error'; in the standalone router subscribe('error')
\* fails and 'error' never has a subscriber.
C2_ErrorNeverSubscribed ==
  /\ \A id \in DOMAIN connections : "error" \notin connections[id].subscriptions
  /\ "error" \notin DOMAIN subscribers
  /\ (routerRet.op = "subscribe" /\ routerRet.type = "error") => ~routerRet.success

\* a connection was sent 'subscribed' for status after a subscribe that named
\* status and error, and the standalone router has just refused 'error'
C2_Witness ==
  /\ \E id \in DOMAIN connections :
       /\ connections[id].subscriptions = {"status"}
       /\ sent[id][Len(sent[id])] = AckFrame("subscribed", <<"status">>)
  /\ routerRet = [op |-> "subscribe", type |-> "error", success |-> FALSE]

(***************************************************************************)
(* Properties of the backend scheduler and of what the hub writes          *)
(***************************************************************************)
\* C3: after every enqueue on a broadcast scheduler the queue length is at
\* most maxQueueSize, for the standalone scheduler and for the backend one.
C3_QueueBounded ==
  /\ Len(queue) <= maxQueueSize
  /\ Len(messageQueue) <= hubMaxQueueSize

\* the frames that carry a status, statistics or health update
IsUpdateFrame(f) ==
  f.event \in {"status_update", "stats_update", "health_alert", "health_recovery"}

\* a 'subscribed' confirmation for a set that covers type
ConfirmsSubscription(f, type) ==
  /\ f.event = "subscribed"
  /\ (type \in Range(f.types) \/ "all" \in Range(f.types))

\* C8: no update frame of a type is written to a connection before a
\* 'subscribed' confirmation for a set containing that type was written to it.
C8_SubscribedPrecedesUpdates ==
  \A s \in DOMAIN sent : \A i \in 1..Len(sent[s]) :
    IsUpdateFrame(sent[s][i]) =>
      \E j \in 1..(i - 1) : ConfirmsSubscription(sent[s][j], sent[s][i].type)

\* the batch_update envelopes written so far
BatchUpdates ==
  {f \in UNION {Range(sent[s]) : s \in DOMAIN sent} : f.event = "batch_update"}

\* C9 as stated: in every batch_update envelope the entries of data.events are
\* in non-decreasing timestamp order.
C9_BatchEventsByTime ==
  \A f \in BatchUpdates : \A i, j \in 1..Len(f.events) :
    i < j => f.events[i].timestamp <= f.events[j].timestamp

\* C9 amended: in every batch_update envelope the entries of data.events are
\* in the order of the drain's sort: by priority (high, normal, low) and, among
\* tasks of equal priority, in non-decreasing timestamp order.
C9_BatchEventsInSortOrder ==
  \A f \in BatchUpdates :
    /\ Len(f.events) >= 2
    /\ \A i, j \in 1..Len(f.events) :
         i < j =>
           \/ priorityWeight(f.events[i].priority) < priorityWeight(f.events[j].priority)
           \/ /\ f.events[i].priority = f.events[j].priority
              /\ f.events[i].timestamp <= f.events[j].timestamp

\* a batch_update was written whose first event is a later high priority one
\* and whose second event is an earlier one of a lower priority
C9_Witness ==
  \E f \in BatchUpdates :
    /\ f.events[1].priority = "high"
    /\ f.events[2].priority # "high"
    /\ f.events[1].timestamp > f.events[2].timestamp

(***************************************************************************)
(* Properties of a drain of the backend scheduler                          *)
(***************************************************************************)
\* the types of the batch being drained and, for a type, its tasks in batch order
DrainTypes == {drainBatch[i].type : i \in 1..Len(drainBatch)}

TasksOfType(t) == SelectSeq(drainBatch, LAMBDA task : task.type = t)

\* the registered connections subscribed to t or to 'all'
Subscribers(t) ==
  {s \in DOMAIN connections :
     t \in connections[s].subscriptions \/ "all" \in connections[s].subscriptions}

\* the data of the tasks a frame delivers
DataOf(frame) ==
  IF frame.type \notin TaskTypes THEN {}
  ELSE IF frame.event = "batch_update"
       THEN {frame.events[i].data : i \in 1..Len(frame.events)}
       ELSE {frame.data}

\* the data of the tasks of the drain's batch
DrainData == {drainBatch[i].data : i \in 1..Len(drainBatch)}

\* the frames the drain has written to transport s: the frames written since
\* it started that deliver a task of its batch (broadcastUrgent writes past the
\* queue, also while a drain is waiting)
ReceivedInDrain(s) ==
  SelectSeq(SubSeq(sent[s], drainFrom[s] + 1, Len(sent[s])),
            LAMBDA f : DataOf(f) \cap DrainData # {})

\* f is the envelope of the tasks of type t: the event and data of a single
\* task, or a batch_update with one {event, data, timestamp} per task
IsEnvelopeOf(f, t, tasks) ==
  /\ f.type = t
  /\ IF Len(tasks) = 1
     THEN f.event = tasks[1].event /\ f.data = tasks[1].data
     ELSE /\ f.event = "batch_update"
          /\ Len(f.events) = Len(tasks)
          /\ \A i \in 1..Len(tasks) :
               /\ f.events[i].event = tasks[i].event
               /\ f.events[i].data = tasks[i].data
               /\ f.events[i].timestamp = tasks[i].timestamp

\* s was sent exactly one frame of type t in the drain, the envelope of t
OneEnvelope(s, t) ==
  LET got == SelectSeq(ReceivedInDrain(s), LAMBDA f : f.type = t)
  IN  Len(got) = 1 /\ IsEnvelopeOf(got[1], t, TasksOfType(t))

\* the step in which processQueue finishes its batch
DrainEnds == isProcessing /\ ~isProcessing'

\* C14 as stated: when a drain ends, every subscriber of every type of the
\* batch has been sent exactly one envelope for that type: the task's own
\* event and data for a single task, a batch_update with k entries for k > 1.
C14_OneEnvelopePerSubscriber ==
  [][DrainEnds => \A t \in DrainTypes : \A s \in Subscribers(t) : OneEnvelope(s, t)]_vars

\* C14 amended: the same for every subscriber that is alive and whose
\* transport is OPEN; a subscriber whose transport has left OPEN is sent
\* nothing in the drain.
C14_OneEnvelopePerOpenSubscriber ==
  [][DrainEnds =>
       \A t \in DrainTypes : \A s \in Subscribers(t) :
         IF connections[s].isAlive /\ socket[s].readyState = "OPEN"
         THEN OneEnvelope(s, t)
         ELSE ReceivedInDrain(s) = <<>>]_vars

\* a drain of two tasks of one type has sent its only group: a subscriber
\* with an open transport holds one batch_update with two entries
C14_Witness ==
  /\ isProcessing
  /\ inflight = <<>>
  /\ Len(drainBatch) = 2
  /\ drainBatch[1].type = drainBatch[2].type
  /\ \E s \in Subscribers(drainBatch[1].type) :
       /\ socket[s].readyState = "OPEN"
       /\ Len(ReceivedInDrain(s)) = 1
       /\ ReceivedInDrain(s)[1].event = "batch_update"
       /\ Len(ReceivedInDrain(s)[1].events) = 2

(***************************************************************************)
(* Properties of the health alerts of the change detector                  *)
(***************************************************************************)
\* the level of a value against threshold T
LevelOf(value, T) ==
  IF value > T + 15 THEN "critical" ELSE IF value > T THEN "warning" ELSE "info"

\* the monitored components, in the order they are checked, with the value a
\* status reports for each and its threshold
Components == <<"cpu", "memory", "disk">>

ValueOf(status, c) ==
  CASE c = "cpu" -> status.cpuUsage
    [] c = "memory" -> status.memoryUsage
    [] c = "disk" -> status.diskUsage

ThresholdOf(c) ==
  CASE c = "cpu" -> cpuThreshold [] c = "memory" -> memoryThreshold [] c = "disk" -> diskThreshold

\* what a broadcast says: event, component, level and priority
Said(b) ==
  [event |-> b.event, component |-> b.component,
   level |-> IF b.event = "health_alert" THEN b.level ELSE "info", priority |-> b.priority]

\* what component c must emit for a value when prev is the level of the
\* sample before ("none" for the first sample)
ExpectedFor(c, value, prev) ==
  LET level == LevelOf(value, ThresholdOf(c))
  IN  IF level # prev /\ level \in {"warning", "critical"}
      THEN <<[event |-> "health_alert", component |-> c, level |-> level,
              priority |-> IF level = "critical" THEN "high" ELSE "normal"]>>
      ELSE IF level = "info" /\ prev \in {"warning", "critical"}
      THEN <<[event |-> "health_recovery", component |-> c, level |-> "info",
              priority |-> "normal"]>>
      ELSE <<>>

\* the level of component c in the k-th sample, "none" before the first
LevelAt(samples, k, c) ==
  IF k = 0 THEN "none" ELSE LevelOf(ValueOf(samples[k], c), ThresholdOf(c))

\* what the k-th check must have broadcast, component by component
ExpectedAt(samples, k) ==
  ExpectedFor("cpu", ValueOf(samples[k], "cpu"), LevelAt(samples, k - 1, "cpu"))
    \o ExpectedFor("memory", ValueOf(samples[k], "memory"), LevelAt(samples, k - 1, "memory"))
    \o ExpectedFor("disk", ValueOf(samples[k], "disk"), LevelAt(samples, k - 1, "disk"))

\* what the k-th check did broadcast
SaidAt(log, k) == [i \in 1..Len(log[k]) |-> Said(log[k][i])]

\* the samples 70, 85, 96, 85, 70 of the CPU against the threshold 80, and
\* what each must emit for the CPU
ExampleCpu == <<70, 85, 96, 85, 70>>

ExampleEmits ==
  <<<<>>,
    <<[event |-> "health_alert", component |-> "cpu", level |-> "warning", priority |-> "normal"]>>,
    <<[event |-> "health_alert", component |-> "cpu", level |-> "critical", priority |-> "high"]>>,
    <<[event |-> "health_alert", component |-> "cpu", level |-> "warning", priority |-> "normal"]>>,
    <<[event |-> "health_recovery", component |-> "cpu", level |-> "info", priority |-> "normal"]>>>>

CpuSaidAt(log, k) == SelectSeq(SaidAt(log, k), LAMBDA b : b.component = "cpu")

ExampleHolds ==
  (/\ cpuThreshold = 80
   /\ Len(healthSamples) = Len(ExampleCpu)
   /\ \A k \in 1..Len(ExampleCpu) : healthSamples[k].cpuUsage = ExampleCpu[k])
  => \A k \in 1..Len(ExampleCpu) : CpuSaidAt(healthLog, k) = ExampleEmits[k]

\* C15: each check broadcasts, for each component, a health_alert exactly when
\* the level differs from the level of the sample before and is warning or
\* critical (priority high when critical, else normal), a health_recovery
\* (normal) exactly when the level becomes info from warning or critical, and
\* nothing otherwise; for the CPU samples 70, 85, 96, 85, 70 against 80 the
\* broadcasts are none, alert(warning), alert(critical, high), alert(warning),
\* recovery.
C15_HealthAlertsOnLevelChange ==
  [][/\ Len(healthSamples') = Len(healthSamples) + 1
     /\ Len(healthLog') = Len(healthSamples')
     /\ SaidAt(healthLog', Len(healthLog')) = ExpectedAt(healthSamples', Len(healthSamples'))
     /\ ExampleHolds']_vars

\* the five CPU samples of the example were checked, and the last check
\* broadcast the recovery of the CPU
C15_Witness ==
  /\ Len(healthSamples) = Len(ExampleCpu)
  /\ \A k \in 1..Len(ExampleCpu) : healthSamples[k].cpuUsage = ExampleCpu[k]
  /\ \E i \in 1..Len(healthLog[5]) :
       healthLog[5][i].event = "health_recovery" /\ healthLog[5][i].component = "cpu"
  /\ \E i \in 1..Len(healthLog[3]) :
       healthLog[3][i].event = "health_alert" /\ healthLog[3][i].priority = "high"

(***************************************************************************)
(* Properties of the client                                                *)
(***************************************************************************)
\* d is min(base * 1.5^(n-1), 30000), compared without division
DelayIs(d, base, n) ==
  IF base * Pow(3, n - 1) <= MAX_RECONNECT_DELAY * Pow(2, n - 1)
  THEN d.num * Pow(2, n - 1) = base * Pow(3, n - 1) * d.den
  ELSE d.num = MAX_RECONNECT_DELAY * d.den

\* a step in which attemptReconnect sets a reconnect timer
ReconnectScheduled == totalAttempts' = totalAttempts + 1

\* what such a step leaves behind: the delay of the formula, within the cap
ScheduledWithDelay ==
  /\ state' = "reconnecting"
  /\ reconnectTimer'
  /\ DelayIs(delay', reconnectInterval, reconnectAttempts')
  /\ delay'.num <= MAX_RECONNECT_DELAY * delay'.den

\* a close event that calls attemptReconnect with the limit reached
LimitReachedStep ==
  /\ \E id \in 1..MaxClientSockets, withError \in {TRUE, FALSE} : SocketClose(id, withError)
  /\ state # "disconnected"
  /\ reconnectAttempts >= maxReconnectAttempts

\* what such a step leaves behind: 'disconnected', no timer, the error reported
GaveUp ==
  /\ state' = "disconnected"
  /\ ~reconnectTimer'
  /\ orphanTimers' = orphanTimers
  /\ totalAttempts' = totalAttempts
  /\ lastError' = MaxAttemptsError

\* C10 as stated: every reconnect delay is min(reconnectInterval *
\* 1.5^(attempt-1), 30000 ms), the total number of reconnect attempts the
\* client makes never exceeds maxReconnectAttempts, and once the limit is
\* reached the client is 'disconnected', schedules no reconnect and reports
\* the failure to the error callback.
C10_ReconnectCeilingTotal ==
  [][/\ ReconnectScheduled => ScheduledWithDelay
     /\ totalAttempts' <= maxReconnectAttempts
     /\ LimitReachedStep => GaveUp]_vars

\* C10 amended: the same for the number of reconnect attempts made since the
\* last successful open, which is what reconnectAttempts counts.
C10_ReconnectCeilingSinceOpen ==
  [][/\ ReconnectScheduled => ScheduledWithDelay
     /\ reconnectAttempts' <= maxReconnectAttempts
     /\ LimitReachedStep => GaveUp]_vars

\* the client gave up after maxReconnectAttempts failures in a row, the last
\* delay being the cap, having reconnected with success before
C10_Witness ==
  /\ state = "disconnected"
  /\ lastError = MaxAttemptsError
  /\ reconnectAttempts = maxReconnectAttempts
  /\ totalAttempts > maxReconnectAttempts
  /\ delay = [num |-> MAX_RECONNECT_DELAY, den |-> 1]
  /\ ~reconnectTimer

(***************************************************************************)
(* Properties of the frames routed by the gateway                          *)
(***************************************************************************)
\* the step wrote exactly the frame reply to transport s and nothing else
WroteOnly(s, reply) ==
  /\ sent'[s] = Append(sent[s], reply)
  /\ \A x \in DOMAIN sent \ {s} : sent'[x] = sent[x]

\* the registry and the transports are as they were
RegistryUntouched ==
  /\ connections' = connections
  /\ userConnections' = userConnections
  /\ socket' = socket

\* C11: an unsubscribe naming only types that are not in the connection's
\* subscription set is answered with exactly one 'unsubscribed' ack naming the
\* requested types and no error frame, and the subscription set stays as it
\* was; this holds in every state, so for a repeated unsubscribe as well.
C11_UnsubscribeAbsentType ==
  [][\A s \in 1..MaxSessions, l \in TypeLists :
       (/\ GatewayMessage(s, Frame("unsubscribe", TRUE, l))
        /\ s \in DOMAIN connections
        /\ Range(l) \cap connections[s].subscriptions = {})
       => /\ WroteOnly(s, AckFrame("unsubscribed", l))
          /\ RegistryUntouched]_vars

\* the same unsubscribe was acknowledged twice in a row on a connection that
\* still has subscriptions: the second one named no subscribed type
C11_Witness ==
  \E s \in DOMAIN connections, l \in TypeLists :
    /\ Len(sent[s]) >= 2
    /\ sent[s][Len(sent[s])] = AckFrame("unsubscribed", l)
    /\ sent[s][Len(sent[s]) - 1] = AckFrame("unsubscribed", l)
    /\ connections[s].subscriptions # {}

\* a type list without any valid type other than 'error'
NoSubscribableType(l) == \A i \in 1..Len(l) : l[i] \notin VALID_MESSAGE_TYPES \ {"error"}

\* C12: a subscribe whose type list holds no valid non-reserved type is
\* answered with exactly one error frame with code SUBSCRIPTION_INVALID and no
\* 'subscribed' frame, and the connection's subscription set is as before.
C12_InvalidSubscribeKeepsSet ==
  [][\A s \in 1..MaxSessions, l \in TypeLists :
       (/\ GatewayMessage(s, Frame("subscribe", TRUE, l))
        /\ s \in DOMAIN connections
        /\ NoSubscribableType(l))
       => /\ WroteOnly(s, ErrorFrame("SUBSCRIPTION_INVALID", NoValidTypes))
          /\ RegistryUntouched]_vars

\* a connection subscribed to 'all' and then sent a list without a valid type:
\* the error is the last frame and the set is still {all}
C12_Witness ==
  \E s \in DOMAIN connections :
    /\ sent[s] = <<ConnectedFrame, AckFrame("subscribed", <<"all">>),
                   ErrorFrame("SUBSCRIPTION_INVALID", NoValidTypes)>>
    /\ connections[s].subscriptions = {"all"}

\* a frame that JSON.parse rejects
Undecodable(f) == ~f.json

\* a decoded frame that lacks a field or names an unknown type or action
Malformed(f) ==
  /\ f.json
  /\ \/ ~f.id
     \/ f.type \notin VALID_MESSAGE_TYPES
     \/ f.action \notin VALID_CLIENT_ACTIONS
     \/ ~f.timestamp

\* C13: a frame that fails decoding or validation is answered with exactly one
\* error frame to the sender (PARSE_ERROR when it cannot be decoded); no
\* connection is closed or unregistered, and the subscriptions and
\* lastHeartbeat of every connection stay as they were.
C13_BadFrameOneError ==
  [][\A s \in 1..MaxSessions, f \in ClientFrames :
       (GatewayMessage(s, f) /\ (Undecodable(f) \/ Malformed(f)))
       => /\ \E e \in {sent'[s][Len(sent'[s])]} :
               /\ WroteOnly(s, e)
               /\ e.event = "error"
               /\ Undecodable(f) => e.code = "PARSE_ERROR"
          /\ RegistryUntouched]_vars

\* a connection sent an undecodable frame and a frame without id after its
\* last heartbeat: both were answered with an error, and it is still
\* registered, open and subscribed as before
C13_Witness ==
  \E s \in DOMAIN connections :
    /\ socket[s].readyState = "OPEN"
    /\ \E i, j \in 1..Len(sent[s]) :
         /\ sent[s][i].event = "error" /\ sent[s][i].code = "PARSE_ERROR"
         /\ sent[s][j].event = "error" /\ sent[s][j].code = "INVALID_TYPE"
    /\ Len(sent[s]) = 3
    /\ connections[s].subscriptions = Range(AutoSubscription)
    /\ connections[s].lastHeartbeat < now

(***************************************************************************)
(* Properties of the client's frames                                       *)
(***************************************************************************)
\* the frames the step wrote to transport id
WrittenTo(id) ==
  IF id \in DOMAIN wire
  THEN SubSeq(wire'[id], Len(wire[id]) + 1, Len(wire'[id]))
  ELSE wire'[id]

\* the subscribe frames among the frames of a sequence
SubscribeFrames(frames) == SelectSeq(frames, LAMBDA m : m.action = "subscribe")

\* the number of subscribe frames the step wrote, on the transports ids
RECURSIVE SubscribesWritten(_)
SubscribesWritten(ids) ==
  IF ids = {} THEN 0
  ELSE LET id == CHOOSE x \in ids : TRUE
       IN  Len(SubscribeFrames(WrittenTo(id))) + SubscribesWritten(ids \ {id})

\* the close event of the current transport reaches a connected client
TransportDrops ==
  \E id \in DOMAIN sockets, withError \in {TRUE, FALSE} :
    SocketClose(id, withError) /\ id = ws /\ state = "connected"

\* the open event of a transport reaches a client that has subscriptions
OpensWithSubscriptions ==
  (\E id \in DOMAIN sockets : SocketOpen(id)) /\ clientSubscriptions # <<>>

\* C16: when the transport of a connected client drops without disconnect()
\* the client enters 'reconnecting', and every open that finds a non-empty
\* local subscription set writes exactly one subscribe frame, naming the whole
\* set, whether or not frames were queued while offline.
C16_ResubscribeOnEveryOpen ==
  [][/\ TransportDrops => state' = "reconnecting"
     /\ OpensWithSubscriptions
          => /\ SubscribesWritten(DOMAIN wire') = 1
             /\ \E id \in DOMAIN wire' :
                  SubscribeFrames(WrittenTo(id)) = <<SubscribeMessage(clientSubscriptions)>>]_vars

\* C17: connect() called while the state is 'connected' or 'connecting'
\* creates no transport and leaves every field of the client as it was.
C17_ConnectIdempotent ==
  [][(Connect /\ state \in {"connected", "connecting"})
       => /\ sockets' = sockets
          /\ wire' = wire
          /\ Client' = Client]_vars

\* connect() has just returned on a connected client that still has its one
\* open transport
C17_Witness ==
  /\ lastCall = Called("connect", "connected", FALSE)
  /\ state = "connected"
  /\ sockets = <<"OPEN">>
  /\ ws = 1

\* send() is called by the application on a client that is not connected
SendsOffline == ClientSend /\ state # "connected"

\* the open event of a transport reaches a client that has queued frames
OpensWithQueue == (\E id \in DOMAIN sockets : SocketOpen(id)) /\ clientQueue # <<>>

\* the frames a sequence holds apart from the subscribe frames
OtherFrames(frames) == SelectSeq(frames, LAMBDA m : m.action # "subscribe")

\* C18: a send() made while the client is not connected writes nothing,
\* returns false and appends the frame to the offline queue; the next open
\* writes every queued frame to the transport exactly once, in the order it
\* was queued, and leaves the offline queue empty.
C18_OfflineSendsFlushedOnOpen ==
  [][/\ SendsOffline
          => /\ wire' = wire
             /\ lastCall'.ret = FALSE
             /\ clientQueue' = Append(clientQueue, AppMessage(nextCall))
     /\ OpensWithQueue
          => /\ ~hung'
             /\ clientQueue' = <<>>
             /\ ws' # 0
             /\ OtherFrames(WrittenTo(ws')) = OtherFrames(clientQueue)
             /\ \A id \in DOMAIN wire' \ {ws'} : WrittenTo(id) = <<>>]_vars

\* C19: the offline queue of the client is bounded: whatever number of send()
\* calls and heartbeat pings are made while not connected, its length never
\* exceeds the maximum, the oldest frame making room for the newest.
C19_OfflineQueueBounded == Len(clientQueue) <= OfflineQueueMax

(***************************************************************************)
(* Properties of the two indices of the registry                           *)
(***************************************************************************)
\* the identities whose set holds connection id
IdentitiesOf(id) == {u \in DOMAIN userConnections : id \in userConnections[u]}

\* C20: after any sequence of register, unregister (repeated and of unknown
\* ids as well) and sweep, the two indices agree: an id is in the id index
\* exactly when it is in the identity index, there under its own identity and
\* no other; no identity maps to an empty set; an id that is not registered
\* is in neither index.
C20_IndicesAgree ==
  /\ \A id \in DOMAIN connections : IdentitiesOf(id) = {connections[id].userId}
  /\ \A id \in DOMAIN socket \ DOMAIN connections : IdentitiesOf(id) = {}
  /\ \A u \in DOMAIN userConnections :
       /\ userConnections[u] # {}
       /\ userConnections[u] \subseteq DOMAIN connections

\* two connections were registered and one of them was unregistered, not
\* swept: its transport is still open, its identity is gone from the identity
\* index, and the other connection is in both indices
C20_Witness ==
  /\ ~swept.done
  /\ \E gone, kept \in DOMAIN socket :
       /\ gone \notin DOMAIN connections
       /\ socket[gone].readyState = "OPEN"
       /\ registered = "ok"
       /\ kept \in DOMAIN connections
       /\ DOMAIN userConnections = {connections[kept].userId}

(***************************************************************************)
(* Properties of the fan-out of the scheduler                              *)
(***************************************************************************)
\* the frames the step wrote to the transport of session s
NewFrames(s) ==
  IF s \in DOMAIN sent
  THEN SubSeq(sent'[s], Len(sent[s]) + 1, Len(sent'[s]))
  ELSE sent'[s]

\* the sessions the step wrote a frame of type t to
Receivers(t) ==
  {s \in DOMAIN sent' : \E i \in 1..Len(NewFrames(s)) : NewFrames(s)[i].type = t}

\* the registered connections that are alive with an open transport and are
\* subscribed to t or to 'all' when the step begins
Eligible(t) ==
  {s \in DOMAIN connections :
     /\ connections[s].isAlive
     /\ socket[s].readyState = "OPEN"
     /\ (t \in connections[s].subscriptions \/ "all" \in connections[s].subscriptions)}

\* the groups the drain has before it at the step: those of the batch it takes
\* now, or those left after its last await
GroupsAhead ==
  IF isProcessing THEN inflight
  ELSE IF isProcessing' THEN groupByType(drainBatch')
  ELSE <<>>

\* the step is the drain's fan-out of type t, or passes t over
DrainHandles(t) ==
  /\ \E i \in 1..Len(GroupsAhead) : GroupsAhead[i].type = t
  /\ \A i \in 1..Len(inflight') : inflight'[i].type # t

\* C21: a fan-out of type t, from a drain or from broadcastUrgent, writes to
\* exactly the registered connections that are alive with an open transport
\* and whose subscription set holds t or 'all' at that moment, and to no
\* other; so a connection that unsubscribed from t before the drain gets
\* nothing for a task enqueued earlier.
C21_FanOutToCurrentSubscribers ==
  [][\A t \in TaskTypes :
       /\ Receivers(t) # {} => Receivers(t) = Eligible(t)
       /\ BroadcastUrgent(t) => Receivers(t) = Eligible(t)
       /\ DrainHandles(t) => Receivers(t) = Eligible(t)]_vars

\* a drain has taken a status task and passed it over: the only connection
\* has unsubscribed from status and was written nothing but the greeting and
\* the acknowledgement of its unsubscribe
C21_Witness ==
  /\ isProcessing
  /\ inflight = <<>>
  /\ \E i \in 1..Len(drainBatch) : drainBatch[i].type = "status"
  /\ DOMAIN connections = {1}
  /\ "status" \notin connections[1].subscriptions
  /\ "stats" \in connections[1].subscriptions
  /\ sent[1] = <<ConnectedFrame, AckFrame("unsubscribed", <<"status">>)>>

\* the data of every task delivered to some transport so far
DeliveredData ==
  UNION {UNION {DataOf(sent[s][i]) : i \in 1..Len(sent[s])} : s \in DOMAIN sent}

\* C22: stop() leaves the queue empty and the flush timer cancelled; no task
\* that was in the queue when stop() was called is delivered afterwards, and
\* the timer never starts a drain again.
C22_StopDropsQueue ==
  [][/\ Stop => (messageQueue' = <<>> /\ ~flushTimer')
     /\ ~flushTimer => (~flushTimer' /\ ~Flush)
     /\ \A task \in dropped' : task.data \notin DeliveredData']_vars

\* the scheduler was stopped with a task in its queue; a high priority task
\* broadcast afterwards has been drained and delivered to a connection that
\* is subscribed to the type of the dropped task as well
C22_Witness ==
  /\ ~flushTimer
  /\ messageQueue = <<>>
  /\ ~isProcessing
  /\ \E task \in dropped, s \in DOMAIN connections :
       /\ task.type \in connections[s].subscriptions
       /\ socket[s].readyState = "OPEN"
       /\ \E later \in DeliveredData : later > task.data
       /\ Len(sent[s]) = 2

(***************************************************************************)
(* Properties of the drains of the scheduler                               *)
(***************************************************************************)
\* a high priority task is waiting in the queue
HighQueued == \E i \in 1..Len(messageQueue) : messageQueue[i].priority = "high"

\* a high priority task is among the tasks the drain has taken
HighTaken == \E i \in 1..Len(drainBatch) : drainBatch[i].priority = "high"

\* a high priority task is enqueued
EnqueuesHigh == \E type \in TaskTypes : Broadcast(type, "high")

\* C23: enqueuing a high priority task while no drain is in progress starts a
\* drain inside the enqueue call; when a drain is in progress the task waits
\* for the follow-up drain that is scheduled as the current one finishes, and
\* that follow-up takes it: neither waits for a tick of the flush timer.
C23_HighPriorityDrainsAtOnce ==
  [][/\ (EnqueuesHigh /\ ~isProcessing) => (isProcessing' /\ HighTaken')
     /\ (EnqueuesHigh /\ isProcessing) => (isProcessing' /\ HighQueued')
     /\ (HighQueued /\ isProcessing /\ ~isProcessing') => immediates' = immediates + 1
     /\ (HighQueued' /\ ~isProcessing') => immediates' > 0
     /\ (Immediate /\ HighQueued /\ ~isProcessing) => (isProcessing' /\ HighTaken')]_vars

\* the second task, a high priority one, was enqueued while the drain of the
\* first was in progress; the drain is over, the first task is delivered, the
\* second is still queued and the follow-up drain is scheduled
C23_Witness ==
  /\ ~isProcessing
  /\ immediates = 1
  /\ Len(messageQueue) = 1
  /\ messageQueue[1].priority = "high"
  /\ messageQueue[1].data = 2
  /\ DeliveredData = {1}

(***************************************************************************)
(* Properties of the subscription set of a connection                      *)
(***************************************************************************)
\* the types of a list a subscribe accepts: valid ones other than 'error'
Accepted(l) == {l[i] : i \in 1..Len(l)} \cap (VALID_MESSAGE_TYPES \ {"error"})

\* C24: a successful subscribe replaces the subscription set of the connection
\* by exactly the accepted types, whatever the set held before; so the set is
\* the accepted set of the last successful subscribe, and the same subscribe
\* applied twice gives what it gives applied once.
C24_SubscribeReplaces ==
  [][\A s \in 1..MaxSessions, l \in TypeLists :
       (/\ GatewayMessage(s, Frame("subscribe", TRUE, l))
        /\ s \in DOMAIN connections
        /\ Accepted(l) # {})
       => /\ connections'[s].subscriptions = Accepted(l)
          /\ \A x \in DOMAIN connections \ {s} : connections'[x] = connections[x]]_vars

\* a connection subscribed to 'all' and then to status with 'error': its set
\* is {status}, without 'all' and without the types it was given at the open
C24_Witness ==
  \E s \in DOMAIN connections :
    /\ sent[s] = <<ConnectedFrame, AckFrame("subscribed", <<"all">>),
                   AckFrame("subscribed", <<"status">>)>>
    /\ connections[s].subscriptions = {"status"}

\* the subscription set of connection id after addSubscription(id, t) followed
\* by removeSubscription(id, t)
AddThenRemove(id, t) ==
  removeSubscription(addSubscription(connections, id, t), id, t)[id].subscriptions

\* C25 as stated: for every connection, type t and subscription set S, S with
\* t in it included, addSubscription(t) followed by removeSubscription(t)
\* leaves the set equal to S.
C25_AddThenRemoveKeepsSet ==
  \A id \in DOMAIN connections, t \in SubscriptionTypes :
    AddThenRemove(id, t) = connections[id].subscriptions

\* C25: addSubscription(t) followed by removeSubscription(t) leaves the set
\* as it was when t was not in it, and leaves it without t when t was in it;
\* no other type and no other connection is touched.
C25_AddThenRemoveDropsType ==
  \A id \in DOMAIN connections, t \in SubscriptionTypes :
    /\ t \notin connections[id].subscriptions
         => AddThenRemove(id, t) = connections[id].subscriptions
    /\ AddThenRemove(id, t) = connections[id].subscriptions \ {t}
    /\ \A x \in DOMAIN connections \ {id} :
         removeSubscription(addSubscription(connections, id, t), id, t)[x] = connections[x]

\* a connection holds status and stats after two addSubscription calls: the
\* pair applied for status drops status, applied for 'all' it changes nothing
C25_Witness ==
  \E id \in DOMAIN connections :
    /\ connections[id].subscriptions = {"status", "stats"}
    /\ AddThenRemove(id, "status") = {"stats"}
    /\ AddThenRemove(id, "all") = {"status", "stats"}

(***************************************************************************)
(* Properties of publish of the standalone router                          *)
(***************************************************************************)
\* the callbacks subscribed to type t when the step begins
CurrentSubscribers(t) == IF t \in DOMAIN subscribers THEN subscribers[t] ELSE {}

RegisteredFor(u) == {id \in DOMAIN connections : connections[id].userId = u}

\* identity u is at its cap, or the registry is at the global cap
AtACap(u) ==
  \/ Cardinality(DOMAIN connections) >= maxTotalConnections
  \/ Cardinality(RegisteredFor(u)) >= maxConnectionsPerUser

Silent == now - lastPongTime > heartbeatTimeout

\* the heartbeat interval fires on a connected client
ConnectedTick == HeartbeatFires /\ state = "connected"

\* a connected client with its heartbeat running and an open transport
Beating == state = "connected" /\ heartbeatTimer /\ ~hung /\ wsIsOpen(Client)

\* C28: on a heartbeat tick a connected client closes its transport when more
\* than heartbeatTimeout has passed since the last pong or the open, and
\* otherwise leaves the transport alone and sends a ping; the close event of
\* the transport takes it to 'reconnecting'. So a connected client that gets
\* no pong any more eventually leaves 'connected', and a client whose pongs
\* arrive within the timeout is never closed by the heartbeat.
C28_HeartbeatClosesSilentTransport ==
  /\ [][/\ (ConnectedTick /\ Silent)
             => /\ sockets'[ws] \notin {"CONNECTING", "OPEN"}
                /\ wire' = wire
                /\ clientQueue' = clientQueue
        /\ (ConnectedTick /\ ~Silent)
             => /\ sockets' = sockets
                /\ wsIsOpen(Client) => wire' = [wire EXCEPT ![ws] = Append(@, PingMessage)]
        /\ TransportDrops => state' = "reconnecting"]_vars
  /\ (Beating /\ Silent) ~> (state # "connected" \/ ~Silent \/ hung)

\* the heartbeat closed the transport of a client that had got no pong for
\* longer than heartbeatTimeout, the close event came, and the client is
\* waiting to reconnect
C28_Witness ==
  /\ state = "reconnecting"
  /\ reconnectTimer
  /\ sockets = <<"CLOSED">>
  /\ lastError = ""
  /\ now - lastPongTime > heartbeatTimeout
  /\ ~heartbeatTimer

\* sequence a is the beginning of sequence b
IsPrefix(a, b) == Len(a) <= Len(b) /\ SubSeq(b, 1, Len(a)) = a

\* sequence a is the end of sequence b
IsSuffix(a, b) == Len(a) <= Len(b) /\ SubSeq(b, Len(b) - Len(a) + 1, Len(b)) = a

\* the tasks of a sequence, as a set: every task has data of its own
TaskSet(q) == {q[i] : i \in 1..Len(q)}

\* a drain starts at the step
DrainStarts == ~isProcessing /\ isProcessing'

\* C29: whatever the interleaving of flush ticks, enqueues and follow-up
\* drains, no drain starts while one is in progress: the batch of the drain in
\* progress stays as it was taken, a task enqueued meanwhile is appended to
\* the queue and stays there, and the drain that starts later divides the
\* queue between its batch and what it leaves, losing nothing.
C29_OneDrainAtATime ==
  [][/\ (isProcessing /\ isProcessing')
          => /\ drainBatch' = drainBatch
             /\ IsSuffix(inflight', inflight)
     /\ (isProcessing /\ ~Stop)
          => /\ IsPrefix(messageQueue, messageQueue')
             /\ Len(messageQueue') <= Len(messageQueue) + 1
     /\ DrainStarts
          => /\ TaskSet(drainBatch') \cap TaskSet(messageQueue') = {}
             /\ TaskSet(messageQueue) \subseteq TaskSet(drainBatch') \cup TaskSet(messageQueue')
             /\ Len(drainBatch') + Len(messageQueue') <= Len(messageQueue) + 1]_vars

\* a drain is in progress with a batch that is not full, and a high priority
\* task made after every task of the batch is waiting in the queue: it was
\* enqueued while the drain was in progress
C29_Witness ==
  /\ isProcessing
  /\ drainBatch # <<>>
  /\ Len(drainBatch) < broadcastBatchSize
  /\ Len(messageQueue) = 1
  /\ messageQueue[1].priority = "high"
  /\ \A i \in 1..Len(drainBatch) : drainBatch[i].data < messageQueue[1].data

\* the place of a priority in the order of the drain: high, normal, low
Rank(p) == IF p = "high" THEN 1 ELSE IF p = "normal" THEN 2 ELSE 3

\* task a does not come after task b in the order of the drain
NotAfter(a, b) ==
  \/ Rank(a.priority) < Rank(b.priority)
  \/ Rank(a.priority) = Rank(b.priority) /\ a.timestamp <= b.timestamp

\* the sequence is in the order of the drain
InDrainOrder(q) == \A i, j \in 1..Len(q) : i < j => NotAfter(q[i], q[j])

\* the smaller of two numbers
Min(a, b) == IF a < b THEN a ELSE b

\* C30: a drain takes exactly the first min(|Q|, broadcastBatchSize) tasks of
\* the queue in the order high, normal, low and, within a priority, ascending
\* timestamp: the batch followed by what is left is the whole queue in that
\* order, so no task left has a higher priority than a task taken.
C30_DrainTakesSortedPrefix ==
  [][DrainStarts
       => /\ TaskSet(messageQueue) \subseteq TaskSet(drainBatch' \o messageQueue')
          /\ Len(drainBatch' \o messageQueue') \in {Len(messageQueue), Len(messageQueue) + 1}
          /\ Len(drainBatch') = Min(Len(drainBatch' \o messageQueue'), broadcastBatchSize)
          /\ InDrainOrder(drainBatch' \o messageQueue')
          /\ \A i \in 1..Len(drainBatch'), j \in 1..Len(messageQueue') :
               Rank(drainBatch'[i].priority) <= Rank(messageQueue'[j].priority)]_vars

\* a drain has taken a full batch of which the last task arrived after the
\* low priority task it left in the queue
C30_Witness ==
  /\ isProcessing
  /\ Len(drainBatch) = broadcastBatchSize
  /\ Len(messageQueue) = 1
  /\ messageQueue[1].priority = "low"
  /\ drainBatch[Len(drainBatch)].priority # "low"
  /\ drainBatch[Len(drainBatch)].data > messageQueue[1].data

(***************************************************************************)
(* Progress of the drains of the backend scheduler                         *)
(***************************************************************************)
\* C31: while the scheduler is not stopped, a queue that holds tasks
\* eventually becomes empty, so every task in it is eventually taken out; the
\* flush interval, the awaits of a drain and the setImmediate callbacks are
\* fair, and the enqueues cease.
C31_QueueEventuallyDrained ==
  (flushTimer /\ messageQueue # <<>>) ~> (messageQueue = <<>> \/ ~flushTimer)

\* a drain has ended with tasks left in the queue and its follow-up drain is
\* scheduled with setImmediate
C31_Witness ==
  /\ flushTimer
  /\ ~isProcessing
  /\ immediates > 0
  /\ messageQueue # <<>>

(***************************************************************************)
(* Properties of the get_history requests                                  *)
(***************************************************************************)
\* the limit of a payload clamped to [1, 100], the default for an absent one
ClampedLimit(payload) ==
  IF ~payload.hasLimit THEN defaultHistoryLimit
  ELSE IF payload.limit > MAX_HISTORY_LIMIT THEN MAX_HISTORY_LIMIT
  ELSE IF payload.limit < 1 THEN 1
  ELSE payload.limit

\* the history_data replies written so far
HistoryReplies ==
  UNION {{sent[s][i] : i \in {j \in 1..Len(sent[s]) : sent[s][j].event = "history_data"}} :
           s \in DOMAIN sent}

\* C32: the limit passed to the history provider and echoed in the
\* history_data reply lies in [1, 100]: a limit above 100 becomes 100, a limit
\* below 1 becomes 1 and an absent limit becomes defaultHistoryLimit.
C32_HistoryLimitClamped ==
  /\ \A call \in pendingHistory :
       call.limit \in 1..MAX_HISTORY_LIMIT /\ call.limit = ClampedLimit(call.payload)
  /\ \A reply \in HistoryReplies : reply.limit \in 1..MAX_HISTORY_LIMIT

(***************************************************************************)
(* Properties of the status updates of the change detector                 *)
(***************************************************************************)
\* the monitored fields in which two statuses differ
ChangedFields(old, new) ==
  {fieldsToMonitor[i] : i \in {j \in 1..Len(fieldsToMonitor) :
                                 old[fieldsToMonitor[j]] # new[fieldsToMonitor[j]]}}

StatusThreshold(field) == IF field = "cpuUsage" THEN cpuThreshold ELSE memoryThreshold

\* a changed CPU or memory field whose new value is above its threshold
AboveThreshold(old, new) ==
  \E field \in ChangedFields(old, new) \cap {"cpuUsage", "memoryUsage"} :
    new[field] > StatusThreshold(field)

\* a changed CPU or memory field that was at or below its threshold and is
\* above it now
CrossesThreshold(old, new) ==
  \E field \in ChangedFields(old, new) \cap {"cpuUsage", "memoryUsage"} :
    old[field] <= StatusThreshold(field) /\ new[field] > StatusThreshold(field)

\* what a check of new after old enqueues, given whether a critical field
\* counts as high
EnqueuesFor(old, new, critical) ==
  IF ChangedFields(old, new) = {} THEN statusLog' = <<>>
  ELSE /\ Len(statusLog') = 1
       /\ statusLog'[1].event = "status_update"
       /\ statusLog'[1].status = new
       /\ statusLog'[1].priority =
            IF critical THEN "high"
            ELSE IF Cardinality(ChangedFields(old, new)) > 3 THEN "normal"
            ELSE "low"

\* a check of a status when an earlier one is recorded
ChecksAgain == lastStatus # <<>> /\ lastStatus' # <<>>

\* C33 as stated, with 'crosses above' read as: was not above, is above now.
\* A sample that differs from the previous one enqueues one status_update,
\* high if a changed CPU or memory field crosses its threshold, else normal
\* if more than three fields changed, else low; an equal sample enqueues none.
C33_StatusPriorityOnCrossing ==
  [][ChecksAgain =>
       EnqueuesFor(lastStatus[1], lastStatus'[1],
                   CrossesThreshold(lastStatus[1], lastStatus'[1]))]_vars

\* C33 amended: the same with high whenever the new value of a changed CPU
\* or memory field is above its threshold, whatever its old value was.
C33_StatusPriorityOnLevel ==
  [][ChecksAgain =>
       EnqueuesFor(lastStatus[1], lastStatus'[1],
                   AboveThreshold(lastStatus[1], lastStatus'[1]))]_vars

\* a status_update of priority normal for four changed fields, none of them
\* critical
C33_Witness ==
  /\ Len(statusLog) = 1
  /\ statusLog[1].priority = "normal"
  /\ Len(statusLog[1].changes) = 4
  /\ statusLog[1].changes[1].field = "cpuUsage"

(***************************************************************************)
(* Properties of the validation of client frames                           *)
(***************************************************************************)
\* a decoded frame whose only defect is its action, or its type
OnlyUnknownAction(f) ==
  /\ f.json /\ f.id /\ f.timestamp
  /\ f.type \in VALID_MESSAGE_TYPES
  /\ f.action # "" /\ f.action \notin VALID_CLIENT_ACTIONS

OnlyUnknownType(f) ==
  /\ f.json /\ f.id /\ f.timestamp
  /\ f.type # "" /\ f.type \notin VALID_MESSAGE_TYPES
  /\ f.action \in VALID_CLIENT_ACTIONS

\* the step answers s with one error frame of the given code
AnswersError(s, code) ==
  \E e \in {sent'[s][Len(sent'[s])]} :
    WroteOnly(s, e) /\ e.event = "error" /\ e.code = code

\* C34: validation rejects exactly the decoded frames with an unknown type or
\* action, without id, type, action or a numeric timestamp; a frame whose
\* only defect is an unknown action is answered with the error code
\* INVALID_ACTION, one whose only defect is an unknown type with INVALID_TYPE.
C34_ErrorCodeNamesFailure ==
  [][\A s \in 1..MaxSessions, f \in ClientFrames :
       (GatewayMessage(s, f) /\ f.json)
       => /\ validateMessage(f) <=> ~Malformed(f)
          /\ OnlyUnknownAction(f) => AnswersError(s, "INVALID_ACTION")
          /\ OnlyUnknownType(f) => AnswersError(s, "INVALID_TYPE")]_vars

(***************************************************************************)
(* Properties of the fan-out to the subscribers of 'all'                   *)
(***************************************************************************)
\* the connections subscribed to 'all' that a fan-out can write to
AllSubscribers ==
  {s \in DOMAIN connections :
     /\ "all" \in connections[s].subscriptions
     /\ connections[s].isAlive
     /\ socket[s].readyState = "OPEN"}

\* the step is a fan-out of type t: broadcastUrgent, or a drain reaching the
\* group of t
FansOut(t) == BroadcastUrgent(t) \/ DrainHandles(t)

\* C35: a connection subscribed to 'all' is written the fan-out of every
\* type that is not reserved and is never written a broadcast of the reserved
\* type 'error', whether it comes from broadcast, broadcastUrgent or the
\* broadcast endpoint.
C35_AllExcludesReserved ==
  [][\A t \in FanOutTypes :
       FansOut(t) => IF t \in RESERVED_TYPES
                     THEN AllSubscribers \cap Receivers(t) = {}
                     ELSE AllSubscribers \subseteq Receivers(t)]_vars

(***************************************************************************)
(* Properties of the writes to unregistered connections                    *)
(***************************************************************************)
\* the transports whose connection is not registered: it was unregistered by
\* the close handler or by the sweep, or it was refused
Unregistered == DOMAIN sent \ DOMAIN connections

\* C36: once a connection is unregistered no frame is written to its
\* transport: no reply of the router, not even the history_data of a provider
\* call that was pending, and no frame of a drain or of an urgent broadcast.
C36_NoWriteAfterUnregister ==
  [][\A s \in Unregistered : sent'[s] = sent[s]]_vars

\* the only connection asked for its history, was unregistered while the
\* provider call was pending, and the call has returned since: it was written
\* nothing but the greeting
C36_Witness ==
  /\ nextSock = 2
  /\ nextFrame = 2
  /\ pendingHistory = {}
  /\ Unregistered = {1}
  /\ sent[1] = <<ConnectedFrame>>

(***************************************************************************)
(* Properties of a session of the client with the server                   *)
(***************************************************************************)
\* the client is connected, has written frames, and the server has handled
\* every one of them
AllFramesHandled ==
  /\ state = "connected"
  /\ 1 \in DOMAIN connections
  /\ Len(wire[1]) > 0
  /\ nextFrame = Len(wire[1]) + 1

\* C37: when the server has handled every frame of the subscribe and
\* unsubscribe calls of a connected client, its subscription set for the
\* connection is the client's local set, restricted to the valid types that
\* are not reserved.
C37_SubscriptionSetsAgree ==
  AllFramesHandled
    => connections[1].subscriptions
         = Range(clientSubscriptions) \cap (VALID_MESSAGE_TYPES \ {"error"})

(***************************************************************************)
(* Properties of the transports and timers of the client                   *)
(***************************************************************************)
\* the transports of the client that are connecting or open
LiveTransports == {id \in DOMAIN sockets : sockets[id] \in {"CONNECTING", "OPEN"}}

\* the reconnect timers that are pending, with or without a handle
PendingReconnectTimers == (IF reconnectTimer THEN 1 ELSE 0) + orphanTimers

\* C38: under every interleaving of connect(), disconnect(), the reconnect
\* timer and the open and close events of the transports, late ones
\* included, the client has at most one transport that is connecting or open
\* and at most one pending reconnect timer.
C38_OneTransportOneTimer ==
  /\ Cardinality(LiveTransports) <= 1
  /\ PendingReconnectTimers <= 1

\* the open event of a transport reaches the client
TransportOpens == \E id \in DOMAIN sockets : SocketOpen(id)

\* C39: the flush of the offline queue that an open event performs always
\* terminates and leaves the queue empty, also when the transport that opened
\* is not the client's current one or the current one is not OPEN.
C39_FlushTerminatesEmpty ==
  [][TransportOpens => (~hung' /\ clientQueue' = <<>>)]_vars

(***************************************************************************)
(* The heartbeat of the gateway: pings, other frames and the sweep         *)
(***************************************************************************)
\* the frames a connection sends between its pings
KeepAliveFrames ==
  {Garbage,
   [Frame("ping", FALSE, <<>>) EXCEPT !.id = FALSE],
   Frame("ping", FALSE, <<>>),
   Frame("ack", FALSE, <<>>),
   Frame("subscribe", TRUE, <<"status">>),
   Frame("unsubscribe", TRUE, <<"status">>)}

\* the gateway with pings, other frames, get_history requests, the clock and
\* the heartbeat sweep
KeepAliveNext ==
  \/ GatewayInputsLeft /\ \E u \in Users : GatewayOpen(u)
  \/ GatewayInputsLeft /\ \E s \in 1..MaxSessions, f \in KeepAliveFrames : GatewayMessage(s, f)
  \/ GatewayInputsLeft /\ \E s \in 1..MaxSessions :
       GatewayGetHistory(s, [hasType |-> TRUE, hasLimit |-> FALSE, limit |-> 0])
  \/ \E call \in pendingHistory, thrown \in BOOLEAN : HistoryResolves(call, thrown)
  \/ GatewayInputsLeft /\ Tick
  \/ \E T \in 1..MaxTimeout : Sweep(T)
  \/ \E s \in 1..MaxSessions : GatewayClose(s)

InitKeepAlive == QueueIdle /\ BackendInit /\ ClientIdle

SpecKeepAlive == InitKeepAlive /\ [][KeepAliveNext]_vars

\* a valid ping frame
ValidPing == Frame("ping", FALSE, <<>>)

\* C40: the lastHeartbeat of a connection is advanced only by a valid ping
\* frame of that connection, which sets it to the time of the ping and is
\* answered with exactly one pong; subscribe, unsubscribe, get_history, ack
\* and invalid frames leave it as it was. So a sweep unregisters every
\* connection whose registration or last ping is more than the timeout ago,
\* whatever other frames it sent in between.
C40_OnlyPingKeepsAlive ==
  [][/\ \A s \in DOMAIN connections \cap DOMAIN connections' :
          connections'[s].lastHeartbeat # connections[s].lastHeartbeat
            => GatewayMessage(s, ValidPing)
     /\ \A s \in DOMAIN connections :
          GatewayMessage(s, ValidPing)
            => /\ connections'[s].lastHeartbeat = now
               /\ WroteOnly(s, PongFrame)
     /\ \A T \in 1..MaxTimeout :
          Sweep(T) => \A s \in DOMAIN connections :
                        now - connections[s].lastHeartbeat > T
                          => s \notin DOMAIN connections']_vars

\* a sweep unregistered a connection that never pinged and whose one frame,
\* an unsubscribe, was acknowledged
C40_Witness ==
  /\ swept.done
  /\ swept.ret = <<1>>
  /\ 1 \notin DOMAIN connections
  /\ sent[1] = <<ConnectedFrame, AckFrame("unsubscribed", <<"status">>)>>

====
